---------------------------- MODULE Spec2Model ----------------------------
(***************************************************************************)
(* Model of the Next.js frontend of the medical-records application:       *)
(*   - the session middleware and decrypt (lib/session),                   *)
(*   - the sendChat server action,                                         *)
(*   - the chat page: Chat.handleSubmit, ChatInput, ConversationArea and   *)
(*     the SpecialBubble card dispatcher.                                  *)
(* SpecMw is the middleware handling one request after another; Spec is    *)
(* the chat page of one browser tab talking to the backend.                *)
(***************************************************************************)
EXTENDS Integers, Sequences, FiniteSets, TLC

\* JavaScript's undefined, for values the model keeps as strings.
Undefined == "<undefined>"

\* JavaScript truthiness of a string-or-undefined value.
Truthy(x) == x \notin {Undefined, ""}

(***************************************************************************)
(* Session middleware                                                      *)
(***************************************************************************)

VARIABLES
  mwPc,       \* "idle" | "handling" | "done": position of the request being served
  mwReq,      \* the request being served
  mwRes       \* the middleware's answer to mwReq

mwVars == <<mwPc, mwReq, mwRes>>

\* A path is the sequence of its segments: "/auth/login" is <<"auth", "login">>.
PathC == <<"c">>
PathLogin == <<"login">>
PathAuthLogin == <<"auth", "login">>
PathAuthRegister == <<"auth", "register">>

protectedRoutes == {PathC}
publicRoutes == {PathAuthLogin, PathAuthRegister}

\* Paths a browser may ask for: the chat page, paths under it, the auth pages,
\* and paths that are neither protected nor public.
Paths == {PathC, <<"c", "history">>, <<"c", "a", "b">>, PathAuthLogin,
          PathAuthRegister, PathLogin, <<"dashboard">>, <<"chat">>}

\* Values of process.env.SESSION_SECRET in the edge runtime.
Secrets == {Undefined, "", "k1"}

\* Session cookie values.  A token is what jwtVerify looks at: its form, the
\* algorithm of its header, the key it was signed with, whether its exp has
\* passed, and the sub and role of its payload.
Tok(form, alg, key, expired, sub) ==
  [form |-> form, alg |-> alg, key |-> key, expired |-> expired, sub |-> sub]

NoCookie == Tok("absent", "", "", FALSE, Undefined)
EmptyToken == Tok("empty", "", "", FALSE, Undefined)

Tokens ==
  { NoCookie,
    EmptyToken,
    Tok("garbage", "", "", FALSE, Undefined),
    Tok("jwt", "HS256", "k1", FALSE, "u1"),
    Tok("jwt", "HS256", "k1", FALSE, "u2"),
    Tok("jwt", "HS256", "k1", FALSE, Undefined),
    Tok("jwt", "HS256", "k1", FALSE, ""),
    Tok("jwt", "HS256", "k1", TRUE, "u1"),
    Tok("jwt", "HS256", "k2", FALSE, "u1"),
    Tok("jwt", "HS256", "", FALSE, "u1"),
    Tok("jwt", "none", "", FALSE, "u1"),
    Tok("jwt", "HS512", "k1", FALSE, "u1") }

\* x-user-id header values a client may send itself.
ClientUserIds == {Undefined, "u9"}

\* The result of a call: a returned value or a thrown exception.
Return(v) == [threw |-> FALSE, val |-> v]
Throw == [threw |-> TRUE, val |-> [isNull |-> TRUE, sub |-> Undefined]]

NullSession == [isNull |-> TRUE, sub |-> Undefined]
Payload(sub) == [isNull |-> FALSE, sub |-> sub]

\* jose's jwtVerify(token, key, {algorithms: ["HS256"]}): the payload of a
\* well-formed, unexpired HS256 token signed with key; throws otherwise.
jwtVerify(token, key) ==
  IF /\ token.form = "jwt"
     /\ token.alg \in {"HS256"}
     /\ key # ""
     /\ token.key = key
     /\ ~token.expired
  THEN Return(Payload(token.sub))
  ELSE Throw

\* decrypt(token = ""): the default parameter turns an absent cookie into "".
DecryptWithoutCatch(cookie, secret) ==
  LET token == IF cookie.form = "absent" THEN EmptyToken ELSE cookie
  IN  IF ~Truthy(secret) THEN Return(NullSession)
      ELSE jwtVerify(token, secret)

decrypt(cookie, secret) ==
  LET token == IF cookie.form = "absent" THEN EmptyToken ELSE cookie
  IN  IF ~Truthy(secret) THEN Return(NullSession)
      ELSE LET r == jwtVerify(token, secret)
           IN  IF r.threw THEN Return(NullSession) ELSE r

\* session?.sub
SessionSub(session) == IF session.isNull THEN Undefined ELSE session.sub

Redirect(to, session) ==
  [kind |-> "redirect", to |-> to, xUserId |-> Undefined, session |-> session]
PassThrough(xUserId, session) ==
  [kind |-> "next", to |-> <<>>, xUserId |-> xUserId, session |-> session]
Thrown == [kind |-> "throw", to |-> <<>>, xUserId |-> Undefined, session |-> NullSession]
NoResponse == [kind |-> "none", to |-> <<>>, xUserId |-> Undefined, session |-> NullSession]

MiddlewareWithoutPublicGate(req) ==
  LET d == decrypt(req.cookie, req.secret)
      session == d.val
      sub == SessionSub(session)
  IN  IF d.threw THEN Thrown
      ELSE IF req.path \in protectedRoutes /\ ~Truthy(sub)
        THEN Redirect(PathLogin, session)
      ELSE PassThrough(IF Truthy(sub) THEN sub ELSE req.xUserId, session)

MiddlewareWithoutUserIdHeader(req) ==
  LET isProtectedRoute == req.path \in protectedRoutes
      isPublicRoute == req.path \in publicRoutes
      d == decrypt(req.cookie, req.secret)
      session == d.val
      sub == SessionSub(session)
  IN  IF d.threw THEN Thrown
      ELSE IF isProtectedRoute /\ ~Truthy(sub) THEN Redirect(PathLogin, session)
      ELSE IF isPublicRoute /\ Truthy(sub) THEN Redirect(PathC, session)
      ELSE PassThrough(req.xUserId, session)

\* middleware(req): the response, with the x-user-id header of the request
\* handed downstream when the request is passed through.
middleware(req) ==
  LET isProtectedRoute == req.path \in protectedRoutes
      isPublicRoute == req.path \in publicRoutes
      d == decrypt(req.cookie, req.secret)
      session == d.val
      sub == SessionSub(session)
  IN  IF d.threw THEN Thrown
      ELSE IF isProtectedRoute /\ ~Truthy(sub) THEN Redirect(PathLogin, session)
      ELSE IF isPublicRoute /\ Truthy(sub) THEN Redirect(PathC, session)
      ELSE PassThrough(IF Truthy(sub) THEN sub ELSE req.xUserId, session)

NoRequest == [path |-> <<>>, cookie |-> NoCookie, secret |-> Undefined, xUserId |-> Undefined]

MwInit ==
  /\ mwPc = "idle"
  /\ mwReq = NoRequest
  /\ mwRes = NoResponse

\* A request arrives at the edge.
MwReceive ==
  /\ mwPc = "idle"
  /\ \E p \in Paths, c \in Tokens, s \in Secrets, h \in ClientUserIds :
       mwReq' = [path |-> p, cookie |-> c, secret |-> s, xUserId |-> h]
  /\ mwPc' = "handling"
  /\ UNCHANGED mwRes

\* The middleware runs on it.
MwHandle ==
  /\ mwPc = "handling"
  /\ mwRes' = middleware(mwReq)
  /\ mwPc' = "done"
  /\ UNCHANGED mwReq

\* The response has gone out; the middleware keeps nothing between requests.
MwFinish ==
  /\ mwPc = "done"
  /\ mwPc' = "idle"
  /\ mwReq' = NoRequest
  /\ mwRes' = NoResponse

(***************************************************************************)
(* Texts and JSON                                                          *)
(*                                                                         *)
(* A JavaScript string is either a plain text, kept as the sequence of its *)
(* pieces (a piece of white space is " "), or the JSON text of a document. *)
(***************************************************************************)

NoDoc == [type |-> Undefined]
Text(chars) == [json |-> FALSE, chars |-> chars, doc |-> NoDoc]
JsonText(doc) == [json |-> TRUE, chars |-> <<>>, doc |-> doc]
NoText == [json |-> FALSE, chars |-> <<"<undefined>">>, doc |-> NoDoc]
EmptyText == Text(<<>>)

RECURSIVE TrimStart(_)
TrimStart(s) == IF s # <<>> /\ Head(s) \in {" ", ""} THEN TrimStart(Tail(s)) ELSE s

RECURSIVE TrimEnd(_)
TrimEnd(s) ==
  IF s # <<>> /\ s[Len(s)] \in {" ", ""} THEN TrimEnd(SubSeq(s, 1, Len(s) - 1)) ELSE s

\* String.prototype.trim
Trim(s) == TrimEnd(TrimStart(s))

\* !input.trim()
IsBlank(t) == ~t.json /\ Trim(t.chars) = <<>>

\* a + b on strings; undefined is coerced to "undefined"
Coerce(t) == IF t = NoText THEN <<"undefined">> ELSE t.chars
Concat(a, b) == Text(Coerce(a) \o Coerce(b))

\* text.includes(part)
Includes(text, part) ==
  \E i \in 1..(Len(text) + 1) :
    /\ i + Len(part) - 1 <= Len(text)
    /\ SubSeq(text, i, i + Len(part) - 1) = part

\* JavaScript values of a JSON field that holds a number or a string.
Num(n) == [t |-> "number", n |-> n, s |-> ""]
Str(s) == [t |-> "string", n |-> 0, s |-> s]
Undef == [t |-> "undefined", n |-> 0, s |-> ""]
TruthyVal(v) == (v.t = "number" /\ v.n # 0) \/ (v.t = "string" /\ v.s # "")

\* A list field of a document: Array.isArray and the items.
NoArray == [isArray |-> FALSE, items |-> <<>>]
Array(items) == [isArray |-> TRUE, items |-> items]

\* The documents the chat page reads, with every field SpecialBubble looks at;
\* a document is NullDoc with some fields set.
NullDoc ==
  [type |-> Undefined, status |-> Undef, message |-> Undefined,
   retryMessage |-> NoText, options |-> NoArray, reply_template |-> NoText,
   doctors |-> NoArray, appointment_id |-> Undefined, id |-> Undefined]

\* JSON.parse(content) inside try/catch: the document, or null (payload?.x
\* is then undefined for every x, as in NullDoc).
JSONparse(content) == IF content.json THEN content.doc ELSE NullDoc

\* JSON.stringify(doc): the JSON text (fields that are undefined are left out,
\* which Undefined/Undef/NoText already stand for).
JSONstringify(doc) == JsonText(doc)

(***************************************************************************)
(* sendChat (server action)                                                *)
(***************************************************************************)

CookieNames == {"session", "refresh_token"}

\* The chat payload {message, user_tz, interrupt_id?, resume_value?}.
ChatPayload(message, tz, iid, rv) ==
  [message |-> message, user_tz |-> tz, interrupt_id |-> iid, resume_value |-> rv]

BrowserTz == "Asia/Beirut"
ServerTz == "UTC"

\* The body of a backend response that is not ok, as res.json() gives it.
\*   kind "unparsable": res.json() throws
\*   kind "null":       the JSON value null (errorData.detail throws)
\*   kind "object":     an object with detail and message
\* detail is absent ("none"), a string, or an object with message and errors.
ErrBody(kind, detailKind, detailText, errors, message) ==
  [kind |-> kind, detailKind |-> detailKind, detailText |-> detailText,
   errors |-> errors, message |-> message]

RECURSIVE Join(_)
Join(msgs) ==
  IF msgs = <<>> THEN ""
  ELSE IF Len(msgs) = 1 THEN Head(msgs)
  ELSE Head(msgs) \o ", " \o Join(Tail(msgs))

\* errorDetails.message after the inner try/catch of sendChat.
ErrorDetailsMessage(status, body) ==
  IF body.kind \in {"unparsable", "null"}
    THEN "Request failed with status " \o ToString(status)
  ELSE IF body.detailKind = "object"
    THEN IF Truthy(body.detailText)
           THEN IF body.errors.isArray
                  THEN body.detailText \o " (" \o Join(body.errors.items) \o ")"
                  ELSE body.detailText
           ELSE "{detail}"
  ELSE IF body.detailKind = "string" /\ Truthy(body.detailText)
    THEN body.detailText
  ELSE body.message

Or(a, b) == IF Truthy(a) THEN a ELSE b

NoData == [reply |-> NoText, agent |-> Undefined, interrupt_id |-> Undefined,
           thinking_time |-> 0]
NoError == [type |-> Undefined, status |-> 0, message |-> Undefined]
Failure(type, status, message) ==
  [threw |-> FALSE, success |-> FALSE, data |-> NoData,
   error |-> [type |-> type, status |-> status, message |-> message]]
Success(data) == [threw |-> FALSE, success |-> TRUE, data |-> data, error |-> NoError]
Rejected == [threw |-> TRUE, success |-> FALSE, data |-> NoData, error |-> NoError]

NoBody == ChatPayload(NoText, Undefined, Undefined, Undefined)

\* What one call of sendChat does: its result, the cookies it leaves, and the
\* body it posted to /chat/message (NoBody when it posted nothing).
Outcome(result, cookies, posted, body) ==
  [result |-> result, cookies |-> cookies, posted |-> posted, body |-> body]

StatusSwitchWithout422(status, message, cookieStore) ==
  IF status = 401
    THEN [result |-> Failure("AUTHENTICATION_FAILED", 401,
                             "Session expired. Please log in again."),
          cookies |-> cookieStore \ {"session", "refresh_token"}]
  ELSE IF status = 403
    THEN [result |-> Failure("FORBIDDEN", 403,
                             Or(message, "Access denied. Insufficient permissions.")),
          cookies |-> cookieStore]
  ELSE IF status = 500
    THEN [result |-> Failure("SERVER_ERROR", 500, Or(message, "Server error occurred.")),
          cookies |-> cookieStore]
  ELSE [result |-> Failure("HTTP_ERROR", status, message), cookies |-> cookieStore]

\* The switch on res.status.
StatusSwitch(status, message, cookieStore) ==
  IF status = 401
    THEN [result |-> Failure("AUTHENTICATION_FAILED", 401,
                             "Session expired. Please log in again."),
          cookies |-> cookieStore \ {"session", "refresh_token"}]
  ELSE IF status = 403
    THEN [result |-> Failure("FORBIDDEN", 403,
                             Or(message, "Access denied. Insufficient permissions.")),
          cookies |-> cookieStore]
  ELSE IF status = 422
    THEN [result |-> Failure("VALIDATION_ERROR", 422, Or(message, "Invalid request data.")),
          cookies |-> cookieStore]
  ELSE IF status = 500
    THEN [result |-> Failure("SERVER_ERROR", 500, Or(message, "Server error occurred.")),
          cookies |-> cookieStore]
  ELSE [result |-> Failure("HTTP_ERROR", status, message), cookies |-> cookieStore]

\* The catch block of sendChat, for the exception e = [name, message].
CatchBlock(e) ==
  IF e.name = "TypeError" /\ e.mentionsFetch
    THEN Failure("NETWORK_ERROR", 503, "Unable to connect to server")
    ELSE Failure("UNKNOWN_ERROR", 500, Or(e.message, "An unexpected error occurred"))

\* What the backend call does: fetch throws e, or a response arrives with a
\* status and a body; the body of an ok response parses to data or does not.
FetchThrows(e) ==
  [fetch |-> "throws", e |-> e, status |-> 0,
   errBody |-> ErrBody("unparsable", "none", Undefined, NoArray, Undefined),
   parses |-> FALSE, data |-> NoData]
Response(status, errBody, parses, data) ==
  [fetch |-> "response",
   e |-> [name |-> "", mentionsFetch |-> FALSE, message |-> Undefined],
   status |-> status, errBody |-> errBody, parses |-> parses, data |-> data]

ResOk(status) == status >= 200 /\ status <= 299

SyntaxError == [name |-> "SyntaxError", mentionsFetch |-> FALSE,
                message |-> "Unexpected end of JSON input"]

TryBlockWithoutResumeFields(payload, cookieStore, backend) ==
  LET body == ChatPayload(payload.message, Or(payload.user_tz, ServerTz),
                          Undefined, Undefined)
  IN  IF backend.fetch = "throws"
        THEN [raised |-> TRUE, e |-> backend.e,
              out |-> Outcome(Rejected, cookieStore, FALSE, NoBody)]
      ELSE IF ~ResOk(backend.status)
        THEN LET sw == StatusSwitch(backend.status,
                         ErrorDetailsMessage(backend.status, backend.errBody),
                         cookieStore)
             IN  [raised |-> FALSE, e |-> backend.e,
                  out |-> Outcome(sw.result, sw.cookies, TRUE, body)]
      ELSE IF ~backend.parses
        THEN [raised |-> TRUE, e |-> SyntaxError,
              out |-> Outcome(Rejected, cookieStore, TRUE, body)]
      ELSE [raised |-> FALSE, e |-> backend.e,
            out |-> Outcome(Success(backend.data), cookieStore, TRUE, body)]

\* The try block of sendChat: a result, or the exception it raises.
TryBlock(payload, cookieStore, backend) ==
  LET body == [payload EXCEPT !.user_tz = Or(payload.user_tz, ServerTz)]
  IN  IF backend.fetch = "throws"
        THEN [raised |-> TRUE, e |-> backend.e,
              out |-> Outcome(Rejected, cookieStore, FALSE, NoBody)]
      ELSE IF ~ResOk(backend.status)
        THEN LET sw == StatusSwitch(backend.status,
                         ErrorDetailsMessage(backend.status, backend.errBody),
                         cookieStore)
             IN  [raised |-> FALSE, e |-> backend.e,
                  out |-> Outcome(sw.result, sw.cookies, TRUE, body)]
      ELSE IF ~backend.parses
        THEN [raised |-> TRUE, e |-> SyntaxError,
              out |-> Outcome(Rejected, cookieStore, TRUE, body)]
      ELSE [raised |-> FALSE, e |-> backend.e,
            out |-> Outcome(Success(backend.data), cookieStore, TRUE, body)]

SendChatWithoutCatch(payload, cookieStore, backend) ==
  IF "session" \notin cookieStore
    THEN Outcome(Failure("AUTHENTICATION_FAILED", 401,
                         "Not authenticated - session token missing"),
                 cookieStore, FALSE, NoBody)
    ELSE TryBlock(payload, cookieStore, backend).out

\* sendChat(payload), called with the cookies of the browser.
sendChat(payload, cookieStore, backend) ==
  IF "session" \notin cookieStore
    THEN Outcome(Failure("AUTHENTICATION_FAILED", 401,
                         "Not authenticated - session token missing"),
                 cookieStore, FALSE, NoBody)
    ELSE LET t == TryBlock(payload, cookieStore, backend)
         IN  IF t.raised
               THEN Outcome(CatchBlock(t.e), t.out.cookies, t.out.posted, t.out.body)
               ELSE t.out

(***************************************************************************)
(* The backend, as sendChat sees it                                        *)
(***************************************************************************)

\* Documents the agent backend puts into reply.
SlotsDoc(template, options) ==
  [NullDoc EXCEPT !.type = "slots", !.options = Array(options),
                  !.reply_template = template]
ProposalDoc == [NullDoc EXCEPT !.type = "booking_proposal"]
DoctorsDoc(doctors) ==
  [NullDoc EXCEPT !.type = "doctors", !.message = "Pick one",
                  !.doctors = Array(doctors)]
ConflictDoc == [NullDoc EXCEPT !.type = "booking_conflict"]

Reply(reply, agent, iid) ==
  [reply |-> reply, agent |-> agent, interrupt_id |-> iid, thinking_time |-> 0]

SlotTemplate == Text(<<"Book", " ">>)

Replies ==
  { Reply(Text(<<"ok">>), "medical", Undefined),
    Reply(JsonText(ProposalDoc), "scheduler", "i1"),
    Reply(JsonText(SlotsDoc(SlotTemplate, <<"09:00", "10:00">>)), "scheduler", "i2"),
    Reply(JsonText(SlotsDoc(EmptyText, <<"", "09:00">>)), "scheduler", Undefined),
    Reply(JsonText(DoctorsDoc(<<[id |-> "7", name |-> "Ghosn"]>>)), "scheduler", "i1"),
    Reply(JsonText(ConflictDoc), "scheduler", Undefined) }

ErrBodies ==
  { ErrBody("unparsable", "none", Undefined, NoArray, Undefined),
    ErrBody("null", "none", Undefined, NoArray, Undefined),
    ErrBody("object", "object", "Bad input", Array(<<"too long", "empty">>), Undefined),
    ErrBody("object", "object", "Bad input", NoArray, Undefined),
    ErrBody("object", "object", Undefined, NoArray, Undefined),
    ErrBody("object", "string", "Not allowed", NoArray, Undefined),
    ErrBody("object", "none", Undefined, NoArray, "Oops"),
    ErrBody("object", "none", Undefined, NoArray, Undefined) }

ErrStatuses == {401, 403, 404, 422, 500, 502}

ConnectionFailure == [name |-> "TypeError", mentionsFetch |-> TRUE, message |-> "fetch failed"]
OtherExceptions ==
  { [name |-> "TypeError", mentionsFetch |-> FALSE, message |-> "Failed to parse URL"],
    [name |-> "Error", mentionsFetch |-> FALSE, message |-> ""] }

NoErrBody == ErrBody("unparsable", "none", Undefined, NoArray, Undefined)

Backends ==
  {FetchThrows(e) : e \in {ConnectionFailure} \cup OtherExceptions}
    \cup {Response(st, b, FALSE, NoData) : st \in ErrStatuses, b \in ErrBodies}
    \cup {Response(200, NoErrBody, TRUE, d) : d \in Replies}
    \cup {Response(200, NoErrBody, FALSE, NoData)}

(***************************************************************************)
(* SpecSend: sendChat called once after another, on every input            *)
(***************************************************************************)

VARIABLES
  scPc,     \* "idle" | "called" | "done"
  scArgs,   \* the payload, the browser's cookies and what the backend will do
  scOut     \* what the call did

scVars == <<scPc, scArgs, scOut>>

SendPayloads ==
  { ChatPayload(Text(<<"hi">>), tz, iid, rv) :
      tz \in {Undefined, "", BrowserTz}, iid \in {Undefined, "i1"}, rv \in {Undefined, "yes"} }

NoArgs == [payload |-> NoBody, cookies |-> {}, backend |-> FetchThrows(ConnectionFailure)]
NoOutcome == Outcome(Rejected, {}, FALSE, NoBody)

ScInit ==
  /\ scPc = "idle"
  /\ scArgs = NoArgs
  /\ scOut = NoOutcome

ScCall ==
  /\ scPc = "idle"
  /\ \E p \in SendPayloads, c \in SUBSET CookieNames, b \in Backends :
       scArgs' = [payload |-> p, cookies |-> c, backend |-> b]
  /\ scPc' = "called"
  /\ UNCHANGED <<scOut, mwVars>>

ScRun ==
  /\ scPc = "called"
  /\ scOut' = sendChat(scArgs.payload, scArgs.cookies, scArgs.backend)
  /\ scPc' = "done"
  /\ UNCHANGED <<scArgs, mwVars>>

ScReturn ==
  /\ scPc = "done"
  /\ scPc' = "idle"
  /\ scArgs' = NoArgs
  /\ scOut' = NoOutcome
  /\ UNCHANGED mwVars

(***************************************************************************)
(* The chat page: Chat, ChatInput, ConversationArea, SpecialBubble         *)
(***************************************************************************)

VARIABLES
  cookies,     \* names of the cookies the browser holds
  location,    \* window.location: PathC while the chat page is loaded
  input,       \* Chat's state input
  messages,    \* Chat's state messages, every queued update applied
  rendered,    \* messages as of the last committed render (what handlers close over)
  isThinking,  \* Chat's state isThinking
  disabled,    \* indexes of the SpecialBubble instances whose isDisabled is true
  inflight,    \* calls of sendChat that handleSubmit is awaiting
  timers,      \* pending setTimeout callbacks that go to /login
  issued       \* number of sendChat calls made since the page loaded

chatVars == <<cookies, location, input, messages, rendered, isThinking, disabled,
              inflight, timers, issued>>

\* Bound on the sendChat calls of one page load.
MaxRequests == 2

\* What the user types into the textarea.
TypedTexts == {Text(<<" ">>), Text(<<"hi">>)}

\* What the backend does to the chat page's requests: one case per branch of
\* sendChat.
ChatBackends ==
  { FetchThrows(ConnectionFailure),
    Response(401, ErrBody("object", "string", "Not allowed", NoArray, Undefined), FALSE, NoData),
    Response(403, ErrBody("object", "string", "Not allowed", NoArray, Undefined), FALSE, NoData),
    Response(404, ErrBody("object", "none", Undefined, NoArray, Undefined), FALSE, NoData),
    Response(422, ErrBody("object", "object", "Bad input", NoArray, Undefined), FALSE, NoData),
    Response(500, ErrBody("unparsable", "none", Undefined, NoArray, Undefined), FALSE, NoData),
    Response(200, NoErrBody, FALSE, NoData) }
    \cup {Response(200, NoErrBody, TRUE, d) : d \in Replies}

Message(role, content, agent, iid, thinkingTime) ==
  [role |-> role, content |-> content, agent |-> agent, interrupt_id |-> iid,
   thinkingTime |-> thinkingTime]

UserMsg(text) == Message("user", text, Undefined, Undefined, 0)

\* {type: "error", status, message, retryMessage}
ErrorPayload(status, message, retryMessage) ==
  [NullDoc EXCEPT !.type = "error", !.status = Num(status), !.message = message,
                  !.retryMessage = retryMessage]

ErrorMsg(status, message, retryMessage) ==
  Message("assistant", JSONstringify(ErrorPayload(status, message, retryMessage)),
          Undefined, Undefined, 0)

\* Where a call of sendChat came from: the form, or the button-th button of
\* the card at index of the message list.
ViaForm == [kind |-> "form", index |-> 0, card |-> "", button |-> 0]
ViaCard(i, card, button) == [kind |-> "card", index |-> i, card |-> card, button |-> button]

\* No request reached the backend.
NoAnswer == Response(0, NoErrBody, FALSE, NoData)

\* An awaited call of sendChat; res is what the backend answered to its request.
Request(payload, via) ==
  [payload |-> payload, via |-> via, stage |-> "sent", out |-> NoOutcome,
   res |-> NoAnswer]

\* ---- SpecialBubble: what a message renders as ----

Button(action, text) == [action |-> action, text |-> text]
Card(kind, shown, buttons) == [card |-> kind, shown |-> shown, buttons |-> buttons]

GetErrorConfigWithout422(status) ==
  IF status = Num(401)
    THEN [badge |-> "Unauthorized", showRetry |-> FALSE, showLogin |-> TRUE,
          description |-> "Your session has expired. Please log in again."]
  ELSE IF status = Num(403)
    THEN [badge |-> "Forbidden", showRetry |-> FALSE, showLogin |-> FALSE,
          description |-> "You don't have permission to perform this action."]
  ELSE [badge |-> "Error", showRetry |-> TRUE, showLogin |-> FALSE,
        description |-> "An unexpected error occurred."]

\* getErrorConfig(status)
getErrorConfig(status) ==
  IF status = Num(401)
    THEN [badge |-> "Unauthorized", showRetry |-> FALSE, showLogin |-> TRUE,
          description |-> "Your session has expired. Please log in again."]
  ELSE IF status = Num(403)
    THEN [badge |-> "Forbidden", showRetry |-> FALSE, showLogin |-> FALSE,
          description |-> "You don't have permission to perform this action."]
  ELSE IF status = Num(422)
    THEN [badge |-> "Validation Error", showRetry |-> TRUE, showLogin |-> FALSE,
          description |-> "Please check your input and try again."]
  ELSE [badge |-> "Error", showRetry |-> TRUE, showLogin |-> FALSE,
        description |-> "An unexpected error occurred."]

RetryButton(payload) == Button("retry", payload.retryMessage)

ProposalButtons ==
  << Button("set", Text(<<"No, I don't want to book this appointment.">>)),
     Button("set", Text(<<"Yes, please book this appointment.">>)) >>

\* One button per option; its click sets the input to reply_template + opt.
SlotButtons(payload) ==
  [k \in 1..Len(payload.options.items) |->
     Button("set", Concat(payload.reply_template, Text(<<payload.options.items[k]>>)))]

DoctorButtons(payload) ==
  [k \in 1..Len(payload.doctors.items) |->
     Button("set", Text(<<"I'd like to book with doctor_id ", payload.doctors.items[k].id,
                          " (", payload.doctors.items[k].name, ")">>))]

\* SpecialBubble({message}) with its own state isDisabled.
SpecialBubble(message, isDisabled) ==
  LET payload == JSONparse(message.content)
  IN  IF isDisabled THEN Card("sent", Undefined, <<>>)
      ELSE IF payload.type = "error" /\ payload.status = Num(500)
        THEN Card("Server Error",
                  Or(payload.message, "The server encountered an unexpected error."),
                  <<RetryButton(payload)>>)
      ELSE IF payload.type = "error" /\ TruthyVal(payload.status)
        THEN LET config == getErrorConfig(payload.status)
             IN  Card(config.badge, Or(payload.message, config.description),
                      (IF config.showLogin THEN <<Button("login", NoText)>> ELSE <<>>)
                        \o (IF config.showRetry THEN <<RetryButton(payload)>> ELSE <<>>))
      ELSE IF payload.type = "booking_proposal"
        THEN Card("booking_proposal", Undefined, ProposalButtons)
      ELSE IF payload.type = "slots" /\ payload.options.isArray
        THEN Card("slots", Undefined, SlotButtons(payload))
      ELSE IF payload.type = "doctors" /\ payload.doctors.isArray
        THEN Card("doctors", payload.message, DoctorButtons(payload))
      ELSE IF payload.type = "appointment_confirmed" /\ Truthy(payload.appointment_id)
        THEN Card("appointment_confirmed", Undefined, <<>>)
      ELSE IF payload.type = "booking_conflict"
        THEN Card("booking_conflict",
                  Or(payload.message, "This time slot is already booked."),
                  <<Button("set", Text(<<"Show me available times">>))>>)
      ELSE IF payload.type = "booking_error"
        THEN Card("booking_error",
                  Or(payload.message, "An error occurred while booking the appointment."),
                  <<Button("set", Text(<<"Help me book an appointment">>))>>)
      ELSE IF payload.status = Str("confirmed") /\ Truthy(payload.id)
        THEN Card("legacy_confirmed", Undefined, <<>>)
      ELSE IF payload.type = "no_doctors"
        THEN Card("no_doctors", payload.message, <<>>)
      ELSE Card("ChatBubble", Undefined, <<>>)

\* The bubble ConversationArea shows for the message at index i.
Bubble(i) == SpecialBubble(rendered[i], i \in disabled)

DisablingCardsWithoutSlots == {"booking_proposal", "doctors"}

\* The cards whose buttons call setIsDisabled(true) before they submit.
DisablingCards == {"booking_proposal", "slots", "doctors"}

\* if (payload.retryMessage): a string is truthy unless it is empty.
TruthyText(t) == t # NoText /\ (t.json \/ \E k \in 1..Len(t.chars) : t.chars[k] # "")

ChatInit ==
  /\ cookies = CookieNames
  /\ location = PathC
  /\ input = EmptyText
  /\ messages = <<>>
  /\ rendered = <<>>
  /\ isThinking = FALSE
  /\ disabled = {}
  /\ inflight = <<>>
  /\ timers = 0
  /\ issued = 0

HandleSubmitRunsWithoutBlankCheck(inp, via) ==
  /\ messages' = Append(rendered, UserMsg(inp))
  /\ rendered' = Append(rendered, UserMsg(inp))
  /\ input' = EmptyText
  /\ isThinking' = TRUE
  /\ inflight' = Append(inflight,
                   Request(ChatPayload(inp, BrowserTz, Undefined, Undefined), via))
  /\ issued' = issued + 1

\* handleSubmit(e), up to its await, run by a render in which input is inp and
\* messages is rendered.  The updates it queues are rendered when the event ends.
HandleSubmitRuns(inp, via) ==
  IF IsBlank(inp)
    THEN /\ input' = inp
         /\ UNCHANGED <<messages, rendered, isThinking, inflight, issued>>
    ELSE /\ messages' = Append(rendered, UserMsg(inp))
         /\ rendered' = Append(rendered, UserMsg(inp))
         /\ input' = EmptyText
         /\ isThinking' = TRUE
         /\ inflight' = Append(inflight,
                          Request(ChatPayload(inp, BrowserTz, Undefined, Undefined), via))
         /\ issued' = issued + 1

\* Textarea onChange: setInput(e.target.value).
TypeInput ==
  /\ location = PathC
  /\ \E t \in TypedTexts : input' = t
  /\ UNCHANGED <<cookies, location, messages, rendered, isThinking, disabled,
                 inflight, timers, issued, mwVars, scVars>>

\* ChatInput onSubmit / Enter in the textarea: handleSubmit(e).
SubmitForm ==
  /\ location = PathC
  /\ IsBlank(input) \/ issued < MaxRequests
  /\ HandleSubmitRuns(input, ViaForm)
  /\ UNCHANGED <<cookies, location, disabled, timers, mwVars, scVars>>

\* A click on a button that sets the input and submits the form (booking
\* proposal, slot, doctor, booking conflict, booking error).
ClickSet ==
  /\ location = PathC
  /\ \E i \in 1..Len(rendered) :
       \E k \in 1..Len(Bubble(i).buttons) :
         LET b == Bubble(i).buttons[k]
             card == Bubble(i).card
         IN  /\ b.action = "set"
             /\ IsBlank(b.text) \/ issued < MaxRequests
             /\ disabled' = IF card \in DisablingCards THEN disabled \cup {i} ELSE disabled
             /\ HandleSubmitRuns(b.text, ViaCard(i, card, k))
  /\ UNCHANGED <<cookies, location, timers, mwVars, scVars>>

\* A click on Try Again of an error card.
ClickRetry ==
  /\ location = PathC
  /\ \E i \in 1..Len(rendered) :
       \E k \in 1..Len(Bubble(i).buttons) :
         LET b == Bubble(i).buttons[k]
         IN  /\ b.action = "retry"
             /\ IF TruthyText(b.text)
                  THEN /\ IsBlank(b.text) \/ issued < MaxRequests
                       /\ HandleSubmitRuns(b.text, ViaCard(i, Bubble(i).card, k))
                  ELSE UNCHANGED <<input, messages, rendered, isThinking, inflight, issued>>
  /\ UNCHANGED <<cookies, location, disabled, timers, mwVars, scVars>>

\* The chat page is left for /login: its state is gone, awaited calls with it.
GoToLogin ==
  /\ location' = PathLogin
  /\ input' = EmptyText
  /\ messages' = <<>>
  /\ rendered' = <<>>
  /\ isThinking' = FALSE
  /\ disabled' = {}
  /\ inflight' = <<>>
  /\ timers' = 0
  /\ issued' = 0

\* A click on Log In of the 401 card.
ClickLogin ==
  /\ location = PathC
  /\ \E i \in 1..Len(rendered) :
       \E k \in 1..Len(Bubble(i).buttons) : Bubble(i).buttons[k].action = "login"
  /\ GoToLogin
  /\ UNCHANGED <<cookies, mwVars, scVars>>

\* The server runs sendChat for the oldest awaited call (Next.js sends the
\* calls of server actions one after another), with the browser's cookies; the
\* cookies it deletes are gone when its response is in.
ServerRunsSendChat ==
  /\ location = PathC
  /\ inflight # <<>>
  /\ inflight[1].stage = "sent"
  /\ \E b \in ChatBackends :
       LET out == sendChat(inflight[1].payload, cookies, b)
       IN  /\ cookies' = out.cookies
           /\ inflight' = [inflight EXCEPT ![1].stage = "returned", ![1].out = out,
                                           ![1].res = IF out.posted THEN b ELSE NoAnswer]
  /\ UNCHANGED <<location, input, messages, rendered, isThinking, disabled, timers,
                 issued, mwVars, scVars>>

\* The call of the server action itself fails (the browser cannot reach the
\* Next.js server): the awaited promise rejects.
ActionCallRejects ==
  /\ location = PathC
  /\ inflight # <<>>
  /\ inflight[1].stage = "sent"
  /\ inflight' = [inflight EXCEPT ![1].stage = "returned",
                                  ![1].out = Outcome(Rejected, cookies, FALSE, NoBody)]
  /\ UNCHANGED <<cookies, location, input, messages, rendered, isThinking, disabled,
                 timers, issued, mwVars, scVars>>

SettledMessageWithoutRetryText(req) ==
  LET result == req.out.result
  IN  IF result.threw
        THEN ErrorMsg(500, "An unexpected error occurred. Please try again.", EmptyText)
      ELSE IF ~result.success
        THEN ErrorMsg(result.error.status, result.error.message, EmptyText)
      ELSE Message("assistant", result.data.reply, result.data.agent,
                   result.data.interrupt_id, result.data.thinking_time)

\* The message handleSubmit appends once the awaited call has settled.
SettledMessage(req) ==
  LET result == req.out.result
  IN  IF result.threw
        THEN ErrorMsg(500, "An unexpected error occurred. Please try again.",
                      req.payload.message)
      ELSE IF ~result.success
        THEN ErrorMsg(result.error.status, result.error.message, req.payload.message)
      ELSE Message("assistant", result.data.reply, result.data.agent,
                   result.data.interrupt_id, result.data.thinking_time)

SchedulesRedirectOnAnyError(req) ==
  LET result == req.out.result
  IN  ~result.threw /\ ~result.success

\* Whether handleSubmit calls setTimeout(() => location.href = "/login", 3000).
SchedulesRedirect(req) ==
  LET result == req.out.result
  IN  ~result.threw /\ ~result.success /\ result.error.type = "AUTHENTICATION_FAILED"

\* handleSubmit after its await: the error card or the reply is appended, and
\* finally setIsThinking(false).  These updates wait for the next render.
HandleSubmitResumes ==
  /\ location = PathC
  /\ inflight # <<>>
  /\ inflight[1].stage = "returned"
  /\ timers' = IF SchedulesRedirect(inflight[1]) THEN timers + 1 ELSE timers
  /\ messages' = Append(messages, SettledMessage(inflight[1]))
  /\ inflight' = Tail(inflight)
  /\ isThinking' = FALSE
  /\ UNCHANGED <<cookies, location, input, rendered, disabled, issued, mwVars, scVars>>

\* React renders the updates queued outside an event handler.
Render ==
  /\ location = PathC
  /\ rendered # messages
  /\ rendered' = messages
  /\ UNCHANGED <<cookies, location, input, messages, isThinking, disabled, inflight,
                 timers, issued, mwVars, scVars>>

\* A redirect timer fires: window.location.href = "/login".
TimerFires ==
  /\ location = PathC
  /\ timers > 0
  /\ GoToLogin
  /\ UNCHANGED <<cookies, mwVars, scVars>>

\* The session cookie reaches its expiry and the browser drops it.
CookieExpires ==
  /\ "session" \in cookies
  /\ cookies' = cookies \ {"session"}
  /\ UNCHANGED <<location, input, messages, rendered, isThinking, disabled, inflight,
                 timers, issued, mwVars, scVars>>

(***************************************************************************)
(* SpecCard: one SpecialBubble instance, mounted on every kind of message  *)
(***************************************************************************)

VARIABLES
  cdPc,        \* "idle" | "mounted" | "rendered"
  cdMsg,       \* the message prop of the instance
  cdDisabled,  \* its state isDisabled
  cdOut        \* what its last render returned

cardVars == <<cdPc, cdMsg, cdDisabled, cdOut>>

\* The type tags of the structured payloads.
PayloadTypes ==
  {"confirm_booking", "booking_proposal", "slots", "doctors", "booking_conflict",
   "booking_error", "appointment_confirmed", "no_doctors", "error"}

\* Values of payload.status.
StatusValues ==
  {Undef, Num(0), Num(401), Num(403), Num(422), Num(500), Num(503), Str("confirmed")}

\* The contents a message may have: plain text, and JSON documents of every
\* type (and of a type no card knows) with the fields the dispatcher tests
\* present or absent.
CardDocs ==
  { [NullDoc EXCEPT !.type = t, !.status = st, !.options = o, !.doctors = d,
                    !.appointment_id = a, !.id = a, !.retryMessage = Text(<<"hi">>)] :
      t \in PayloadTypes \cup {"summary", Undefined},
      st \in StatusValues,
      o \in {NoArray, Array(<<"09:00">>)},
      d \in {NoArray, Array(<<[id |-> "7", name |-> "Ghosn"]>>)},
      a \in {Undefined, "a1"} }

CardContents == {Text(<<"hi">>)} \cup {JsonText(doc) : doc \in CardDocs}

NoCard == Card("", Undefined, <<>>)

CdInit ==
  /\ cdPc = "idle"
  /\ cdMsg = UserMsg(EmptyText)
  /\ cdDisabled = FALSE
  /\ cdOut = NoCard

\* ConversationArea mounts a SpecialBubble for a message of the list.
CdMount ==
  /\ cdPc = "idle"
  /\ \E role \in {"user", "assistant"}, c \in CardContents :
       cdMsg' = Message(role, c, Undefined, Undefined, 0)
  /\ cdDisabled' = FALSE
  /\ cdPc' = "mounted"
  /\ UNCHANGED cdOut

\* React renders the instance.
CdRender ==
  /\ cdPc = "mounted"
  /\ cdOut' = SpecialBubble(cdMsg, cdDisabled)
  /\ cdPc' = "rendered"
  /\ UNCHANGED <<cdMsg, cdDisabled>>

\* A click on a button of the card: booking proposal, slot and doctor buttons
\* call setIsDisabled(true), and the instance renders again.
CdClick ==
  /\ cdPc = "rendered"
  /\ cdOut.buttons # <<>>
  /\ cdOut.card \in DisablingCards
  /\ cdDisabled' = TRUE
  /\ cdPc' = "mounted"
  /\ UNCHANGED <<cdMsg, cdOut>>

\* The page is left and the instance is gone.
CdUnmount ==
  /\ cdPc = "rendered"
  /\ cdPc' = "idle"
  /\ cdMsg' = UserMsg(EmptyText)
  /\ cdDisabled' = FALSE
  /\ cdOut' = NoCard

(***************************************************************************)
(* The login and registration forms and their actions                      *)
(*                                                                         *)
(* A field value is the sequence of its pieces, as the texts above.        *)
(***************************************************************************)

\* Number of characters of a piece, and of a string.
PieceLen(p) ==
  IF p = "" THEN 0
  ELSE IF p = "short" THEN 5
  ELSE IF p = "secret78" THEN 8
  ELSE IF p = "other789" THEN 8
  ELSE IF p = "long129" THEN 129
  ELSE 1

RECURSIVE StrLen(_)
StrLen(s) == IF s = <<>> THEN 0 ELSE PieceLen(Head(s)) + StrLen(Tail(s))

\* z.string().trim().email()
IsEmail(s) == Trim(s) = <<"a@b.c">>

\* safeParse results: {success: true, data} or {success: false, error}, the
\* error kept as the set of fields error.flatten().fieldErrors has keys for.
ParseOk(data) == [success |-> TRUE, data |-> data, fieldErrors |-> {}]
ParseFailed(data, fields) == [success |-> FALSE, data |-> data, fieldErrors |-> fields]

LoginData(email, password, extra) ==
  [email |-> email, password |-> password, extra |-> extra]

\* loginSchema.safeParse(data); extra says that data has a key the schema does
\* not know (.strict()).
loginSchema(data) ==
  LET email == Trim(data.email)
      password == Trim(data.password)
      fields == (IF IsEmail(email) THEN {} ELSE {"email"})
                  \cup (IF StrLen(password) >= 8 /\ StrLen(password) <= 128
                          THEN {} ELSE {"password"})
  IN  IF fields = {} /\ ~data.extra
        THEN ParseOk(LoginData(email, password, FALSE))
        ELSE ParseFailed(data, fields)

RegisterData(email, password, repeat, first, sex, dob, role, extra) ==
  [email |-> email, password |-> password, repeat_password |-> repeat,
   first_name |-> first, last_name |-> <<"Lee">>, sex |-> sex, phone |-> <<"70123456">>,
   address |-> <<"Beirut">>, dob |-> dob, role |-> role, extra |-> extra]

\* registerSchema.safeParse(data).  dob is "date" (a valid Date or a string
\* that new Date() reads), or "invalid" (undefined, or an Invalid Date).  An
\* issue of sex, dob or role aborts the object, and the refinement of the
\* passwords is then not run.
registerSchema(data) ==
  LET email == Trim(data.email)
      password == Trim(data.password)
      repeat == Trim(data.repeat_password)
      first == Trim(data.first_name)
      last == Trim(data.last_name)
      phone == Trim(data.phone)
      address == Trim(data.address)
      aborted == (IF data.sex \in {"M", "F"} THEN {} ELSE {"sex"})
                   \cup (IF data.dob = "date" THEN {} ELSE {"dob"})
                   \cup (IF data.role \in {Undefined, "doctor", "patient", "admin"}
                           THEN {} ELSE {"role"})
      dirty == (IF IsEmail(email) THEN {} ELSE {"email"})
                 \cup (IF StrLen(password) >= 8 THEN {} ELSE {"password"})
                 \cup (IF StrLen(first) >= 1 THEN {} ELSE {"first_name"})
                 \cup (IF StrLen(last) >= 1 THEN {} ELSE {"last_name"})
                 \cup (IF StrLen(phone) >= 1 THEN {} ELSE {"phone"})
                 \cup (IF StrLen(address) >= 1 THEN {} ELSE {"address"})
                 \cup (IF StrLen(repeat) >= 8 THEN {} ELSE {"repeat_password"})
      refined == IF aborted = {} /\ password # repeat THEN {"repeat_password"} ELSE {}
      fields == aborted \cup dirty \cup refined
      parsed == [data EXCEPT !.email = email, !.password = password,
                             !.repeat_password = repeat, !.first_name = first,
                             !.last_name = last, !.phone = phone, !.address = address]
  IN  IF fields = {} /\ ~data.extra THEN ParseOk(parsed) ELSE ParseFailed(data, fields)

\* What the user types into the login form and into the registration form.
LoginInputs ==
  { LoginData(e, p, FALSE) :
      e \in {<<"a@b.c">>, <<" ", "a@b.c">>, <<"nope">>, <<>>},
      p \in {<<"secret78">>, <<" ", "secret78", " ">>, <<"short">>, <<"short", " ", " ", " ">>,
             <<"long129">>} }

RegisterInputs ==
  { RegisterData(e, p, r, f, "M", d, Undefined, FALSE) :
      e \in {<<"a@b.c">>, <<"a@b.c", " ">>, <<"nope">>},
      p \in {<<"secret78">>, <<" ", "secret78">>, <<"short">>},
      r \in {<<"secret78">>, <<"other789">>, <<"short">>},
      f \in {<<"Ann">>, <<" ">>},
      d \in {"date", "invalid"} }

\* The backend's answer to /auth/login and /auth/register: fetch throws, or a
\* response with a status, a status text and a body.  The body is not JSON
\* ("unparsable"), the JSON value null, or an object with or without detail.
AuthBody(kind, detail) == [kind |-> kind, detail |-> detail]
AuthResponse(status, statusText, body) ==
  [fetch |-> "response", status |-> status, statusText |-> statusText, body |-> body]
AuthFetchThrows ==
  [fetch |-> "throws", status |-> 0, statusText |-> "",
   body |-> AuthBody("unparsable", Undefined)]

AuthBodies ==
  { AuthBody("unparsable", Undefined), AuthBody("null", Undefined),
    AuthBody("object", Undefined), AuthBody("object", "Email already registered") }

AuthBackends ==
  {AuthFetchThrows}
    \cup { AuthResponse(st, "", b) : st \in {200, 201, 400, 401, 409, 422, 500},
                                     b \in AuthBodies }
    \cup { AuthResponse(409, "Conflict", b) : b \in AuthBodies }

\* What a call of an action does: it returns a value, it calls redirect(to)
\* (which throws the framework's redirect error), or it throws.  posted says
\* whether it sent its request to the backend.
NoErrors == [kind |-> "none", fields |-> {}, text |-> Undefined]
FieldErrors(fields) == [kind |-> "fields", fields |-> fields, text |-> Undefined]
TextErrors(text) == [kind |-> "text", fields |-> {}, text |-> text]
ApiErrors(text) == [kind |-> "api", fields |-> {}, text |-> text]

ActReturn(errors, status, posted) ==
  [kind |-> "return", errors |-> errors, status |-> status, to |-> <<>>, posted |-> posted]
ActRedirect(to, posted) ==
  [kind |-> "redirect", errors |-> NoErrors, status |-> 0, to |-> to, posted |-> posted]
ActThrow(posted) ==
  [kind |-> "throw", errors |-> NoErrors, status |-> 0, to |-> <<>>, posted |-> posted]

LoginWithoutValidationGate(formData, backend) ==
  IF backend.fetch = "throws" THEN ActThrow(TRUE)
  ELSE IF ~ResOk(backend.status)
    THEN IF backend.status = 500
           THEN ActReturn(TextErrors("Server error occurred. Please try again later."),
                          500, TRUE)
         ELSE IF backend.body.kind = "null" THEN ActThrow(TRUE)
         ELSE ActReturn(TextErrors(Or(backend.body.detail, "Invalid credentials")),
                        backend.status, TRUE)
  ELSE ActRedirect(PathC, TRUE)

\* login(formData)
login(formData, backend) ==
  LET result == loginSchema(formData)
  IN  IF ~result.success THEN ActReturn(FieldErrors(result.fieldErrors), 0, FALSE)
      ELSE IF backend.fetch = "throws" THEN ActThrow(TRUE)
      ELSE IF ~ResOk(backend.status)
        THEN IF backend.status = 500
               THEN ActReturn(TextErrors("Server error occurred. Please try again later."),
                              500, TRUE)
             ELSE IF backend.body.kind = "null" THEN ActThrow(TRUE)
             ELSE ActReturn(TextErrors(Or(backend.body.detail, "Invalid credentials")),
                            backend.status, TRUE)
      ELSE ActRedirect(PathC, TRUE)

\* register(formData)
register(formData, backend) ==
  LET result == registerSchema(formData)
  IN  IF ~result.success THEN ActReturn(FieldErrors(result.fieldErrors), 0, FALSE)
      ELSE IF backend.fetch = "throws" THEN ActThrow(TRUE)
      ELSE IF ~ResOk(backend.status)
        THEN IF backend.body.kind = "null" THEN ActThrow(TRUE)
             ELSE ActReturn(ApiErrors(Or(backend.body.detail, backend.statusText)),
                            backend.status, TRUE)
      ELSE ActRedirect(PathLogin, TRUE)

\* Whether the module of the action starts with the directive "use server":
\* with it the action runs on the server and the framework turns its redirect
\* into a navigation of the browser; without it the function runs where it is
\* called, in the browser, inside the form's handler.
loginUseServer == FALSE
registerUseServer == TRUE

\* What the form's handler did: the toast it showed, where the browser is, and
\* whether an exception left the handler.
Handled(toast, loc, threw) == [toast |-> toast, location |-> loc, threw |-> threw]

\* await action(data) in a handler of the page at here: the value returned, a
\* navigation, or an exception.
AwaitAction(useServer, outcome, here) ==
  IF outcome.kind = "return" THEN [kind |-> "value", location |-> here]
  ELSE IF outcome.kind = "redirect" /\ useServer
    THEN [kind |-> "navigate", location |-> outcome.to]
  ELSE [kind |-> "throw", location |-> here]

\* LoginForm's onSubmit(data), from its await on.
LoginOnSubmit(outcome) ==
  LET a == AwaitAction(loginUseServer, outcome, PathAuthLogin)
  IN  IF a.kind = "value"
        THEN Handled(IF outcome.errors.kind # "none"
                       THEN "Invalid email or password" ELSE Undefined,
                     a.location, FALSE)
        ELSE Handled(Undefined, a.location, a.kind = "throw")

\* RegisterForm's onSubmit(data), from its await on: result.errors.api[0]
\* throws when errors has no api.
RegisterOnSubmit(outcome) ==
  LET a == AwaitAction(registerUseServer, outcome, PathAuthRegister)
  IN  IF a.kind = "value"
        THEN IF outcome.errors.kind = "api"
               THEN Handled(Or(outcome.errors.text, "Registration failed"),
                            a.location, FALSE)
               ELSE Handled(Undefined, a.location, TRUE)
        ELSE Handled(Undefined, a.location, a.kind = "throw")

(***************************************************************************)
(* SpecAuth: the two forms, submitted one after another                    *)
(***************************************************************************)

VARIABLES
  auPc,       \* "idle" | "refused" | "calling" | "returned" | "settled"
  auForm,     \* "login" | "register": the form that was submitted
  auData,     \* the values handed to the action
  auBackend,  \* what the backend does to the action's request
  auOutcome,  \* what the call of the action did
  auShown     \* what the form did with it

authVars == <<auPc, auForm, auData, auBackend, auOutcome, auShown>>

NoAuthData == LoginData(<<>>, <<>>, FALSE)
NoOutcomeYet == ActReturn(NoErrors, 0, FALSE)
NothingShown == [toast |-> Undefined, location |-> <<>>, threw |-> FALSE,
                 fieldErrors |-> {}]

AuInit ==
  /\ auPc = "idle"
  /\ auForm = "login"
  /\ auData = NoAuthData
  /\ auBackend = AuthFetchThrows
  /\ auOutcome = NoOutcomeYet
  /\ auShown = NothingShown

\* form.handleSubmit(onSubmit) with the zod resolver, parsed being what the
\* schema makes of the values typed: values the schema refuses are shown as
\* field errors and onSubmit is not called; otherwise onSubmit gets the parsed
\* values and calls the action with them.
AuSubmit(form, parsed, page) ==
  /\ auPc = "idle"
  /\ auForm' = form
  /\ \E r \in parsed :
       IF r.success
         THEN /\ auPc' = "calling"
              /\ auData' = r.data
              /\ auShown' = [NothingShown EXCEPT !.location = page]
         ELSE /\ auPc' = "refused"
              /\ auData' = r.data
              /\ auShown' = [NothingShown EXCEPT !.location = page,
                                                 !.fieldErrors = r.fieldErrors]
  /\ UNCHANGED <<auBackend, auOutcome>>

AuSubmitLogin ==
  AuSubmit("login", {loginSchema(raw) : raw \in LoginInputs}, PathAuthLogin)
AuSubmitRegister ==
  AuSubmit("register", {registerSchema(raw) : raw \in RegisterInputs}, PathAuthRegister)

\* The action runs and the backend answers its request.
AuActionRuns ==
  /\ auPc = "calling"
  /\ \E b \in AuthBackends :
       /\ auBackend' = b
       /\ auOutcome' = IF auForm = "login" THEN login(auData, b) ELSE register(auData, b)
  /\ auPc' = "returned"
  /\ UNCHANGED <<auForm, auData, auShown>>

\* onSubmit goes on after its await.
AuHandlerResumes ==
  /\ auPc = "returned"
  /\ LET h == IF auForm = "login" THEN LoginOnSubmit(auOutcome)
                                  ELSE RegisterOnSubmit(auOutcome)
     IN  auShown' = [auShown EXCEPT !.toast = h.toast, !.location = h.location,
                                    !.threw = h.threw]
  /\ auPc' = "settled"
  /\ UNCHANGED <<auForm, auData, auBackend, auOutcome>>

\* The user goes back to a fresh form.
AuReset ==
  /\ auPc \in {"refused", "settled"}
  /\ auPc' = "idle"
  /\ auForm' = "login"
  /\ auData' = NoAuthData
  /\ auBackend' = AuthFetchThrows
  /\ auOutcome' = NoOutcomeYet
  /\ auShown' = NothingShown

(***************************************************************************)
(* SpecAct: the two actions called one after another, on every input       *)
(***************************************************************************)

VARIABLES
  acPc,    \* "idle" | "called" | "done"
  acCall,  \* the action called, the data handed to it, what the backend will do
  acOut    \* what the call did

actVars == <<acPc, acCall, acOut>>

\* The data a caller may hand to login: what the form accepts and refuses, and
\* an object with a key the schema does not know.
LoginCalls == LoginInputs \cup {LoginData(<<"a@b.c">>, <<"secret78">>, TRUE)}

\* The data a caller may hand to register: as for login, and values of sex
\* and role outside their enums.
RegisterCalls ==
  RegisterInputs
    \cup { RegisterData(<<"a@b.c">>, <<"secret78">>, r, <<"Ann">>, sex, "date", role, extra) :
             r \in {<<"secret78">>, <<"other789">>},
             sex \in {"M", "X"},
             role \in {Undefined, "patient", "nurse"},
             extra \in BOOLEAN }

NoActCall == [action |-> "", data |-> NoAuthData, backend |-> AuthFetchThrows]

AcInit ==
  /\ acPc = "idle"
  /\ acCall = NoActCall
  /\ acOut = NoOutcomeYet

AcCallLogin ==
  /\ acPc = "idle"
  /\ \E d \in LoginCalls, b \in AuthBackends :
       acCall' = [action |-> "login", data |-> d, backend |-> b]
  /\ acPc' = "called"
  /\ UNCHANGED acOut

AcCallRegister ==
  /\ acPc = "idle"
  /\ \E d \in RegisterCalls, b \in AuthBackends :
       acCall' = [action |-> "register", data |-> d, backend |-> b]
  /\ acPc' = "called"
  /\ UNCHANGED acOut

\* The action runs.
AcRun ==
  /\ acPc = "called"
  /\ acOut' = IF acCall.action = "login" THEN login(acCall.data, acCall.backend)
                                         ELSE register(acCall.data, acCall.backend)
  /\ acPc' = "done"
  /\ UNCHANGED acCall

AcReturn ==
  /\ acPc = "done"
  /\ acPc' = "idle"
  /\ acCall' = NoActCall
  /\ acOut' = NoOutcomeYet

(***************************************************************************)
(* The chat page's server side: Page, ChatSideBar, cancelAppointment       *)
(***************************************************************************)

\* What getUser() resolves to: null, or the user /auth/me answered with.
NullUser == [isNull |-> TRUE, role |-> Undefined]
User(role) == [isNull |-> FALSE, role |-> role]
Users == {NullUser, User("doctor"), User("patient"), User("admin")}

\* Page(): without a user it redirects to /login; otherwise it renders
\* <ChatSideBar /> and <Chat user={user} />.  sidebarUser is the user prop
\* ChatSideBar gets.
Page(user) ==
  IF user.isNull
    THEN [redirect |-> PathLogin, renders |-> FALSE, sidebarUser |-> NullUser,
          chatUser |-> NullUser]
    ELSE [redirect |-> <<>>, renders |-> TRUE, sidebarUser |-> NullUser,
          chatUser |-> user]

Appointment(id) == [id |-> id]
AppointmentLists ==
  {<<>>, <<Appointment("12")>>, <<Appointment("12"), Appointment("13")>>}

\* The backend's answer to GET /appointments.
AppointmentsAnswer(ok, list) == [ok |-> ok, list |-> list]

\* fetchAppointments(): [] without a token, throws when the response is not ok.
fetchAppointments(hasToken, answer) ==
  IF ~hasToken THEN [threw |-> FALSE, list |-> <<>>]
  ELSE IF ~answer.ok THEN [threw |-> TRUE, list |-> <<>>]
  ELSE [threw |-> FALSE, list |-> answer.list]

\* DoctorSideBarItem has no form; PatientSideBarItem has the cancel form with
\* the hidden input appointmentId.
DoctorSideBarItem(appointment) == [item |-> "doctor", id |-> appointment.id, cancel |-> FALSE]
PatientSideBarItem(appointment) == [item |-> "patient", id |-> appointment.id, cancel |-> TRUE]

\* ChatSideBar({user}): one item per appointment.
ChatSideBar(user, hasToken, answer) ==
  LET appointments == fetchAppointments(hasToken, answer)
      userRole == IF user.isNull THEN Undefined ELSE user.role
  IN  [threw |-> appointments.threw,
       items |-> [k \in 1..Len(appointments.list) |->
                    IF userRole = "doctor"
                      THEN DoctorSideBarItem(appointments.list[k])
                      ELSE PatientSideBarItem(appointments.list[k])]]

\* The backend's answer to DELETE /appointments/{id}: fetch throws, or a
\* response with a status whose text() resolves or rejects.
DeleteThrows == [fetch |-> "throws", status |-> 0, textReads |-> FALSE]
DeleteResponse(status, textReads) ==
  [fetch |-> "response", status |-> status, textReads |-> textReads]
DeleteAnswers ==
  {DeleteThrows}
    \cup {DeleteResponse(st, t) : st \in {200, 204, 403, 404, 409, 500}, t \in BOOLEAN}

\* What a call of cancelAppointment did: the ids it sent a DELETE for, in
\* order, whether it called revalidatePath("/c", "layout") and how many
\* DELETEs had been sent by then, and whether it threw.
Cancelled(deletes, revalidated, threw) ==
  [deletes |-> deletes, revalidated |-> revalidated,
   deletesBefore |-> IF revalidated THEN Len(deletes) ELSE 0, threw |-> threw]

\* The try block of cancelAppointment: the DELETE, then revalidatePath when
\* the response is ok; raised says that it was left by an exception (fetch
\* threw, or response.text() rejected).
CancelTry(appointmentId, answer) ==
  IF answer.fetch = "throws"
    THEN [raised |-> TRUE, deletes |-> <<appointmentId>>, revalidated |-> FALSE]
  ELSE IF ~ResOk(answer.status)
    THEN [raised |-> ~answer.textReads, deletes |-> <<appointmentId>>,
          revalidated |-> FALSE]
  ELSE [raised |-> FALSE, deletes |-> <<appointmentId>>, revalidated |-> TRUE]

CancelWithoutCatch(appointmentId, hasToken, answer) ==
  IF ~Truthy(appointmentId) THEN Cancelled(<<>>, FALSE, FALSE)
  ELSE IF ~hasToken THEN Cancelled(<<>>, FALSE, FALSE)
  ELSE LET t == CancelTry(appointmentId, answer)
       IN  Cancelled(t.deletes, t.revalidated, t.raised)

\* cancelAppointment(formData), appointmentId being formData.get("appointmentId");
\* its catch block only logs.
cancelAppointment(appointmentId, hasToken, answer) ==
  IF ~Truthy(appointmentId) THEN Cancelled(<<>>, FALSE, FALSE)
  ELSE IF ~hasToken THEN Cancelled(<<>>, FALSE, FALSE)
  ELSE LET t == CancelTry(appointmentId, answer)
       IN  Cancelled(t.deletes, t.revalidated, FALSE)

(***************************************************************************)
(* SpecSide: the chat page is loaded and appointments are cancelled        *)
(***************************************************************************)

VARIABLES
  sdPc,     \* "idle" | "shown" | "failed" | "cancelling" | "cancelled"
  sdUser,   \* what getUser() resolved to when the page was rendered
  sdToken,  \* whether the browser holds a session cookie
  sdList,   \* the appointments the backend has for the user
  sdPage,   \* what the page rendered: a redirect, or the sidebar's items
  sdCall,   \* the cancel action being run: its appointmentId and the backend's answer
  sdOut     \* what the last call of cancelAppointment did

sideVars == <<sdPc, sdUser, sdToken, sdList, sdPage, sdCall, sdOut>>

NoPage == [redirect |-> <<>>, items |-> <<>>]
NoCall == [appointmentId |-> Undefined, answer |-> DeleteThrows]
NoCancel == Cancelled(<<>>, FALSE, FALSE)

\* The page as rendered for user: Page, and ChatSideBar with the props Page
\* gives it.
RenderPage(user, hasToken, answer) ==
  LET page == Page(user)
      bar == ChatSideBar(page.sidebarUser, hasToken, answer)
  IN  IF ~page.renders THEN [failed |-> FALSE, redirect |-> page.redirect, items |-> <<>>]
      ELSE IF bar.threw THEN [failed |-> TRUE, redirect |-> <<>>, items |-> <<>>]
      ELSE [failed |-> FALSE, redirect |-> <<>>, items |-> bar.items]

SdInit ==
  /\ sdPc = "idle"
  /\ sdUser = NullUser
  /\ sdToken = FALSE
  /\ sdList = <<>>
  /\ sdPage = NoPage
  /\ sdCall = NoCall
  /\ sdOut = NoCancel

\* GET /c reaches Page.
SdLoad ==
  /\ sdPc = "idle"
  /\ \E u \in Users, tok \in BOOLEAN, list \in AppointmentLists, ok \in BOOLEAN :
       LET r == RenderPage(u, tok, AppointmentsAnswer(ok, list))
       IN  /\ sdUser' = u
           /\ sdToken' = tok
           /\ sdList' = list
           /\ sdPage' = [redirect |-> r.redirect, items |-> r.items]
           /\ sdPc' = IF r.failed \/ r.redirect # <<>> THEN "failed" ELSE "shown"
  /\ UNCHANGED <<sdCall, sdOut>>

\* A cancel form of the sidebar is submitted, or the action is posted to
\* without the appointmentId field; the session cookie may have gone since
\* the page was rendered.
SdSubmitCancel ==
  /\ sdPc = "shown"
  /\ \E id \in {sdPage.items[k].id : k \in {j \in 1..Len(sdPage.items) : sdPage.items[j].cancel}}
                 \cup {Undefined, ""},
        a \in DeleteAnswers, tok \in {sdToken, FALSE} :
       /\ sdCall' = [appointmentId |-> id, answer |-> a]
       /\ sdToken' = tok
  /\ sdPc' = "cancelling"
  /\ UNCHANGED <<sdUser, sdList, sdPage, sdOut>>

\* The server runs cancelAppointment; a DELETE the backend accepts removes
\* the appointment.
SdCancelRuns ==
  /\ sdPc = "cancelling"
  /\ sdOut' = cancelAppointment(sdCall.appointmentId, sdToken, sdCall.answer)
  /\ sdList' = IF sdOut'.deletes # <<>> /\ sdCall.answer.fetch = "response"
                    /\ ResOk(sdCall.answer.status)
                 THEN SelectSeq(sdList, LAMBDA ap : ap.id # sdCall.appointmentId)
                 ELSE sdList
  /\ sdPc' = "cancelled"
  /\ UNCHANGED <<sdUser, sdToken, sdPage, sdCall>>

\* The action's response is in: a revalidated path is rendered again.
SdRefresh ==
  /\ sdPc = "cancelled"
  /\ IF sdOut.revalidated
       THEN LET r == RenderPage(sdUser, sdToken, AppointmentsAnswer(TRUE, sdList))
            IN  sdPage' = [redirect |-> r.redirect, items |-> r.items]
       ELSE UNCHANGED sdPage
  /\ sdPc' = "shown"
  /\ sdCall' = NoCall
  /\ sdOut' = NoCancel
  /\ UNCHANGED <<sdUser, sdToken, sdList>>

\* The page is left.
SdLeave ==
  /\ sdPc \in {"shown", "failed"}
  /\ sdPc' = "idle"
  /\ sdUser' = NullUser
  /\ sdToken' = FALSE
  /\ sdList' = <<>>
  /\ sdPage' = NoPage
  /\ sdCall' = NoCall
  /\ sdOut' = NoCancel

(***************************************************************************)
(* SpecNav: one browser navigating the site                                *)
(*                                                                         *)
(* A request goes through the redirects of next.config, then the           *)
(* middleware, then the page; the browser follows every redirect.          *)
(***************************************************************************)

VARIABLES
  nvPc,       \* "idle" | "config" | "middleware" | "page" | "rendered" | "failed"
  nvPath,     \* the path requested, or of the page shown
  nvVia,      \* what made the browser ask for nvPath
  nvCookie,   \* the browser's session cookie
  nvRefresh,  \* whether the browser holds a refresh_token cookie
  nvSecret,   \* SESSION_SECRET of the deployment
  nvMe,       \* what getUser() resolves to for this browser (null when /auth/me is not ok)
  nvPageJs    \* whether the chat page deployed is c/page.js (its redirect commented out)

navVars == <<nvPc, nvPath, nvVia, nvCookie, nvRefresh, nvSecret, nvMe, nvPageJs>>

PathRoot == <<>>
PathRegister == <<"register">>
PathDashboard == <<"dashboard">>

\* redirects() of next.config: the destination for a source path.
NoRedirect == [hit |-> FALSE, to |-> <<>>]
redirects(path) ==
  IF path = PathLogin THEN [hit |-> TRUE, to |-> PathAuthLogin]
  ELSE IF path = PathRegister THEN [hit |-> TRUE, to |-> PathAuthRegister]
  ELSE IF path = PathRoot THEN [hit |-> TRUE, to |-> PathDashboard]
  ELSE NoRedirect

\* Page() of c/page.js: the redirect is commented out, the page is rendered
\* also without a user.
PageJs(user) ==
  [redirect |-> <<>>, renders |-> TRUE, sidebarUser |-> NullUser, chatUser |-> user]

LogoutKeepingRefreshToken(session, refresh) ==
  [session |-> NoCookie, refresh |-> refresh, redirect |-> PathLogin]

\* logout(): both cookies are deleted, then redirect("/login").
logout(session, refresh) ==
  [session |-> NoCookie, refresh |-> FALSE, redirect |-> PathLogin]

\* Paths typed into the address bar or followed as links.
NavPaths ==
  {PathRoot, PathLogin, PathRegister, PathDashboard, PathC, PathAuthLogin,
   PathAuthRegister, <<"c", "history">>}

\* Session cookies of the browser: none, one that does not verify, one that
\* has expired, and ones that verify, with and without a subject.
ValidToken == Tok("jwt", "HS256", "k1", FALSE, "u1")
NavTokens ==
  { NoCookie, Tok("garbage", "", "", FALSE, Undefined), ValidToken,
    Tok("jwt", "HS256", "k1", TRUE, "u1"), Tok("jwt", "HS256", "k1", FALSE, Undefined) }

NvInit ==
  /\ nvPc = "idle"
  /\ nvPath = PathRoot
  /\ nvVia = ""
  /\ nvCookie = NoCookie
  /\ nvRefresh = FALSE
  /\ nvSecret = "k1"
  /\ nvMe = NullUser
  /\ nvPageJs = FALSE

\* A browser, with whatever cookies it has, asks for a path.
NvStart ==
  /\ nvPc = "idle"
  /\ \E p \in NavPaths, c \in NavTokens, r \in BOOLEAN, s \in {"k1", Undefined},
        u \in Users, js \in BOOLEAN :
       /\ nvPath' = p
       /\ nvCookie' = c
       /\ nvRefresh' = r
       /\ nvSecret' = s
       /\ nvMe' = u
       /\ nvPageJs' = js
  /\ nvVia' = "typed"
  /\ nvPc' = "config"

\* From the page shown the user asks for another path.
NvGo ==
  /\ nvPc \in {"rendered", "failed"}
  /\ \E p \in NavPaths : nvPath' = p
  /\ nvVia' = "typed"
  /\ nvPc' = "config"
  /\ UNCHANGED <<nvCookie, nvRefresh, nvSecret, nvMe, nvPageJs>>

\* next.config answers with a redirect, which the browser follows, or hands
\* the request to the middleware.
NvConfig ==
  /\ nvPc = "config"
  /\ IF redirects(nvPath).hit
       THEN /\ nvPath' = redirects(nvPath).to
            /\ nvVia' = "config"
            /\ nvPc' = "config"
       ELSE /\ nvPc' = "middleware"
            /\ UNCHANGED <<nvPath, nvVia>>
  /\ UNCHANGED <<nvCookie, nvRefresh, nvSecret, nvMe, nvPageJs>>

\* The middleware redirects or passes the request on to the page.
NvMiddleware ==
  /\ nvPc = "middleware"
  /\ LET res == middleware([path |-> nvPath, cookie |-> nvCookie, secret |-> nvSecret,
                            xUserId |-> Undefined])
     IN  IF res.kind = "redirect"
           THEN /\ nvPath' = res.to
                /\ nvVia' = "middleware"
                /\ nvPc' = "config"
         ELSE IF res.kind = "next"
           THEN /\ nvPc' = "page"
                /\ UNCHANGED <<nvPath, nvVia>>
         ELSE /\ nvPc' = "failed"
              /\ UNCHANGED <<nvPath, nvVia>>
  /\ UNCHANGED <<nvCookie, nvRefresh, nvSecret, nvMe, nvPageJs>>

\* The page of the path is rendered; the chat page may redirect instead.
NvPage ==
  /\ nvPc = "page"
  /\ LET page == IF nvPageJs THEN PageJs(nvMe) ELSE Page(nvMe)
     IN  IF nvPath = PathC /\ ~page.renders
           THEN /\ nvPath' = page.redirect
                /\ nvVia' = "page"
                /\ nvPc' = "config"
           ELSE /\ nvPc' = "rendered"
                /\ UNCHANGED <<nvPath, nvVia>>
  /\ UNCHANGED <<nvCookie, nvRefresh, nvSecret, nvMe, nvPageJs>>

\* The login form is submitted with values its schema accepts.  A backend
\* that accepts them sets the session and refresh_token cookies and knows the
\* user from then on.
NvLogin ==
  /\ nvPc = "rendered"
  /\ nvPath = PathAuthLogin
  /\ \E b \in AuthBackends, u \in Users \ {NullUser} :
       LET outcome == login(LoginData(<<"a@b.c">>, <<"secret78">>, FALSE), b)
           a == AwaitAction(loginUseServer, outcome, PathAuthLogin)
           accepted == b.fetch = "response" /\ ResOk(b.status)
       IN  /\ nvCookie' = IF accepted THEN ValidToken ELSE nvCookie
           /\ nvRefresh' = IF accepted THEN TRUE ELSE nvRefresh
           /\ nvMe' = IF accepted THEN u ELSE nvMe
           /\ nvVia' = IF accepted THEN "login" ELSE "login refused"
           /\ nvPath' = a.location
           /\ nvPc' = IF a.kind = "navigate" THEN "config" ELSE "rendered"
  /\ UNCHANGED <<nvSecret, nvPageJs>>

\* Log out of the user menu on the chat page: the form's action is logout.
NvLogout ==
  /\ nvPc = "rendered"
  /\ nvPath = PathC
  /\ LET out == logout(nvCookie, nvRefresh)
     IN  /\ nvCookie' = out.session
         /\ nvRefresh' = out.refresh
         /\ nvPath' = out.redirect
  /\ nvVia' = "logout"
  /\ nvPc' = "config"
  /\ UNCHANGED <<nvSecret, nvMe, nvPageJs>>

\* The browser is closed.
NvLeave ==
  /\ nvPc \in {"rendered", "failed"}
  /\ nvPc' = "idle"
  /\ nvPath' = PathRoot
  /\ nvVia' = ""
  /\ nvCookie' = NoCookie
  /\ nvRefresh' = FALSE
  /\ nvSecret' = "k1"
  /\ nvMe' = NullUser
  /\ nvPageJs' = FALSE

(***************************************************************************)
(* Specifications                                                          *)
(***************************************************************************)

vars == <<mwVars, scVars, chatVars, cardVars, authVars, sideVars, actVars, navVars>>

Init == MwInit /\ ScInit /\ ChatInit /\ CdInit /\ AuInit /\ SdInit /\ AcInit /\ NvInit

\* The chat page in the browser, with the server action behind it.
Next ==
  \/ TypeInput /\ UNCHANGED <<cardVars, authVars, sideVars, actVars, navVars>>
  \/ SubmitForm /\ UNCHANGED <<cardVars, authVars, sideVars, actVars, navVars>>
  \/ ClickSet /\ UNCHANGED <<cardVars, authVars, sideVars, actVars, navVars>>
  \/ ClickRetry /\ UNCHANGED <<cardVars, authVars, sideVars, actVars, navVars>>
  \/ ClickLogin /\ UNCHANGED <<cardVars, authVars, sideVars, actVars, navVars>>
  \/ ServerRunsSendChat /\ UNCHANGED <<cardVars, authVars, sideVars, actVars, navVars>>
  \/ ActionCallRejects /\ UNCHANGED <<cardVars, authVars, sideVars, actVars, navVars>>
  \/ HandleSubmitResumes /\ UNCHANGED <<cardVars, authVars, sideVars, actVars, navVars>>
  \/ Render /\ UNCHANGED <<cardVars, authVars, sideVars, actVars, navVars>>
  \/ TimerFires /\ UNCHANGED <<cardVars, authVars, sideVars, actVars, navVars>>
  \/ CookieExpires /\ UNCHANGED <<cardVars, authVars, sideVars, actVars, navVars>>

Spec == Init /\ [][Next]_vars

NextMw ==
  \/ MwReceive /\ UNCHANGED <<scVars, chatVars, cardVars, authVars, sideVars, actVars, navVars>>
  \/ MwHandle /\ UNCHANGED <<scVars, chatVars, cardVars, authVars, sideVars, actVars, navVars>>
  \/ MwFinish /\ UNCHANGED <<scVars, chatVars, cardVars, authVars, sideVars, actVars, navVars>>

SpecMw == Init /\ [][NextMw]_vars

NextSend ==
  \/ ScCall /\ UNCHANGED <<chatVars, cardVars, authVars, sideVars, actVars, navVars>>
  \/ ScRun /\ UNCHANGED <<chatVars, cardVars, authVars, sideVars, actVars, navVars>>
  \/ ScReturn /\ UNCHANGED <<chatVars, cardVars, authVars, sideVars, actVars, navVars>>

SpecSend == Init /\ [][NextSend]_vars

NextCard ==
  \/ CdMount /\ UNCHANGED <<mwVars, scVars, chatVars, authVars, sideVars, actVars, navVars>>
  \/ CdRender /\ UNCHANGED <<mwVars, scVars, chatVars, authVars, sideVars, actVars, navVars>>
  \/ CdClick /\ UNCHANGED <<mwVars, scVars, chatVars, authVars, sideVars, actVars, navVars>>
  \/ CdUnmount /\ UNCHANGED <<mwVars, scVars, chatVars, authVars, sideVars, actVars, navVars>>

SpecCard == Init /\ [][NextCard]_vars

NextAuth ==
  \/ AuSubmitLogin /\ UNCHANGED <<mwVars, scVars, chatVars, cardVars, sideVars, actVars, navVars>>
  \/ AuSubmitRegister /\ UNCHANGED <<mwVars, scVars, chatVars, cardVars, sideVars, actVars, navVars>>
  \/ AuActionRuns /\ UNCHANGED <<mwVars, scVars, chatVars, cardVars, sideVars, actVars, navVars>>
  \/ AuHandlerResumes /\ UNCHANGED <<mwVars, scVars, chatVars, cardVars, sideVars, actVars, navVars>>
  \/ AuReset /\ UNCHANGED <<mwVars, scVars, chatVars, cardVars, sideVars, actVars, navVars>>

SpecAuth == Init /\ [][NextAuth]_vars

NextSide ==
  \/ SdLoad /\ UNCHANGED <<mwVars, scVars, chatVars, cardVars, authVars, actVars, navVars>>
  \/ SdSubmitCancel /\ UNCHANGED <<mwVars, scVars, chatVars, cardVars, authVars, actVars, navVars>>
  \/ SdCancelRuns /\ UNCHANGED <<mwVars, scVars, chatVars, cardVars, authVars, actVars, navVars>>
  \/ SdRefresh /\ UNCHANGED <<mwVars, scVars, chatVars, cardVars, authVars, actVars, navVars>>
  \/ SdLeave /\ UNCHANGED <<mwVars, scVars, chatVars, cardVars, authVars, actVars, navVars>>

SpecSide == Init /\ [][NextSide]_vars

NextAct ==
  \/ AcCallLogin /\ UNCHANGED <<mwVars, scVars, chatVars, cardVars, authVars, sideVars, navVars>>
  \/ AcCallRegister /\ UNCHANGED <<mwVars, scVars, chatVars, cardVars, authVars, sideVars, navVars>>
  \/ AcRun /\ UNCHANGED <<mwVars, scVars, chatVars, cardVars, authVars, sideVars, navVars>>
  \/ AcReturn /\ UNCHANGED <<mwVars, scVars, chatVars, cardVars, authVars, sideVars, navVars>>

SpecAct == Init /\ [][NextAct]_vars

\* The steps the browser and the server take by themselves.
NavFollows ==
  \/ NvConfig /\ UNCHANGED <<mwVars, scVars, chatVars, cardVars, authVars, sideVars, actVars>>
  \/ NvMiddleware /\ UNCHANGED <<mwVars, scVars, chatVars, cardVars, authVars, sideVars, actVars>>
  \/ NvPage /\ UNCHANGED <<mwVars, scVars, chatVars, cardVars, authVars, sideVars, actVars>>

NextNav ==
  \/ NvStart /\ UNCHANGED <<mwVars, scVars, chatVars, cardVars, authVars, sideVars, actVars>>
  \/ NvGo /\ UNCHANGED <<mwVars, scVars, chatVars, cardVars, authVars, sideVars, actVars>>
  \/ NavFollows
  \/ NvLogin /\ UNCHANGED <<mwVars, scVars, chatVars, cardVars, authVars, sideVars, actVars>>
  \/ NvLogout /\ UNCHANGED <<mwVars, scVars, chatVars, cardVars, authVars, sideVars, actVars>>
  \/ NvLeave /\ UNCHANGED <<mwVars, scVars, chatVars, cardVars, authVars, sideVars, actVars>>

\* The browser follows a redirect, and the server answers a request, without
\* waiting for anybody.
SpecNav == Init /\ [][NextNav]_vars /\ WF_vars(NavFollows)

(***************************************************************************)
(* Properties of the middleware (SpecMw)                                   *)
(***************************************************************************)

\* The path is a protected route or lies under one.
UnderProtectedPrefix(path) ==
  \E r \in protectedRoutes : Len(path) >= Len(r) /\ SubSeq(path, 1, Len(r)) = r

\* The request's session cookie is present and verifies under the secret of
\* the runtime.
CookieVerifies(req) ==
  /\ req.cookie.form = "jwt"
  /\ Truthy(req.secret)
  /\ ~jwtVerify(req.cookie, req.secret).threw

\* C1: every request to a protected path (/c or a path under it) whose session
\* cookie is absent or fails verification is answered with a redirect to
\* /login and is not passed through.
C1_ProtectedPrefixRedirectsToLogin ==
  (mwPc = "done" /\ UnderProtectedPrefix(mwReq.path) /\ ~CookieVerifies(mwReq))
    => (mwRes.kind = "redirect" /\ mwRes.to = PathLogin)

\* C2: a request to a public auth path with a session cookie that verifies and
\* has a subject is redirected to /c; with a cookie that is absent or does not
\* verify the request is passed through to the auth page.
C2_PublicPathGate ==
  (mwPc = "done" /\ mwReq.path \in {PathAuthLogin, PathAuthRegister})
    => /\ (CookieVerifies(mwReq) /\ Truthy(mwReq.cookie.sub))
            => (mwRes.kind = "redirect" /\ mwRes.to = PathC)
       /\ ~CookieVerifies(mwReq) => mwRes.kind = "next"

C2_Witness ==
  /\ mwPc = "done"
  /\ mwReq.path = PathAuthLogin
  /\ CookieVerifies(mwReq)
  /\ mwReq.cookie.sub = "u1"
  /\ mwRes.kind = "redirect"
  /\ mwRes.to = PathC

\* C3: session verification never throws: for every cookie that is absent,
\* malformed, wrongly signed or expired, and whenever the secret is missing,
\* decrypt returns null and the middleware answers as for an anonymous caller
\* (login redirect on the protected route, pass-through elsewhere, no user id
\* of its own in the headers).
C3_VerificationNeverThrows ==
  mwPc = "done"
    => /\ mwRes.kind # "throw"
       /\ ~CookieVerifies(mwReq)
            => /\ mwRes.session = NullSession
               /\ mwReq.path \in protectedRoutes
                    => (mwRes.kind = "redirect" /\ mwRes.to = PathLogin)
               /\ mwReq.path \notin protectedRoutes
                    => (mwRes.kind = "next" /\ mwRes.xUserId = mwReq.xUserId)

C3_Witness ==
  /\ mwPc = "done"
  /\ mwReq.cookie.form = "jwt"
  /\ mwReq.cookie.key = "k2"
  /\ mwReq.secret = "k1"
  /\ mwReq.path = PathC
  /\ mwRes.kind = "redirect"
  /\ mwRes.session = NullSession

\* The middleware passed the request through and the session cookie verified.
PassedWithSession ==
  /\ mwPc = "done"
  /\ mwRes.kind = "next"
  /\ ~mwRes.session.isNull

C27_UserIdHeaderOnlyWithSession ==
  (mwPc = "done" /\ mwRes.kind = "next" /\ mwRes.xUserId # Undefined)
    => CookieVerifies(mwReq)

(***************************************************************************)
(* Properties of sendChat (SpecSend)                                       *)
(***************************************************************************)

SpecErrorTypes ==
  {"AUTHENTICATION_FAILED", "FORBIDDEN", "VALIDATION_ERROR", "SERVER_ERROR",
   "NETWORK_ERROR", "UNKNOWN_ERROR"}

\* The backend answered the call with this status.
BackendAnswered(status) ==
  /\ scOut.posted
  /\ scArgs.backend.fetch = "response"
  /\ scArgs.backend.status = status

\* 401, 403, 422 and 500 map to the first four error types.
MappedStatuses ==
  /\ BackendAnswered(401) => scOut.result.error.type = "AUTHENTICATION_FAILED"
  /\ BackendAnswered(403) => scOut.result.error.type = "FORBIDDEN"
  /\ BackendAnswered(422) => scOut.result.error.type = "VALIDATION_ERROR"
  /\ BackendAnswered(500) => scOut.result.error.type = "SERVER_ERROR"

\* C4 (as claimed): every failed result of sendChat has error.type in the
\* closed set of six types, for every backend status; 401, 403, 422 and 500
\* map to the first four.
C4_SixErrorTypes ==
  (scPc = "done" /\ ~scOut.result.success)
    => (scOut.result.error.type \in SpecErrorTypes /\ MappedStatuses)

\* C4 (amended): every failed result of sendChat has error.type in the six
\* types or HTTP_ERROR; 401, 403, 422 and 500 map to the first four, and
\* HTTP_ERROR is the type of exactly the other statuses that are not 2xx.
C4_SevenErrorTypes ==
  (scPc = "done" /\ ~scOut.result.success)
    => /\ scOut.result.error.type \in SpecErrorTypes \cup {"HTTP_ERROR"}
       /\ MappedStatuses
       /\ scOut.result.error.type = "HTTP_ERROR"
            <=> \E st \in ErrStatuses \ {401, 403, 422, 500} : BackendAnswered(st)

C4_Witness ==
  /\ scPc = "done"
  /\ BackendAnswered(404)
  /\ ~scOut.result.success
  /\ scOut.result.error.type = "HTTP_ERROR"
  /\ scOut.result.error.status = 404

\* C5: sendChat never throws: whatever the backend call does (any status, a
\* body that does not parse, a failed connection), it returns a success with
\* data or a failure whose error has a type and a status, and a failed
\* connection gives the type NETWORK_ERROR.
C5_SendChatNeverThrows ==
  scPc = "done"
    => /\ ~scOut.result.threw
       /\ scOut.result.success => scOut.result.data \in Replies
       /\ ~scOut.result.success
            => (Truthy(scOut.result.error.type) /\ scOut.result.error.status >= 400)
       /\ ("session" \in scArgs.cookies /\ scArgs.backend = FetchThrows(ConnectionFailure))
            => (~scOut.result.success /\ scOut.result.error.type = "NETWORK_ERROR")

C5_Witness ==
  /\ scPc = "done"
  /\ "session" \in scArgs.cookies
  /\ scArgs.backend = FetchThrows(ConnectionFailure)
  /\ scOut.result.error.type = "NETWORK_ERROR"
  /\ ~scOut.result.threw

\* The card the conversation shows for a call of sendChat that ended with
\* out: what handleSubmit appends for it, as SpecialBubble renders it.
CardOfOutcome(payload, out) ==
  SpecialBubble(SettledMessage([Request(payload, ViaForm) EXCEPT !.out = out]), FALSE).card

\* C13: each of the six error types has a card of its own: a call of sendChat
\* that failed with one of them and any other call that fails with a different
\* one of them are not shown as the same card.
C13_ErrorTypesHaveDistinctCards ==
  (/\ scPc = "done"
   /\ ~scOut.result.threw
   /\ ~scOut.result.success
   /\ scOut.result.error.type \in SpecErrorTypes)
    => \A c \in SUBSET CookieNames, b \in Backends :
         LET other == sendChat(scArgs.payload, c, b)
         IN  (/\ ~other.result.threw
              /\ ~other.result.success
              /\ other.result.error.type \in SpecErrorTypes
              /\ other.result.error.type # scOut.result.error.type)
               => CardOfOutcome(scArgs.payload, other) # CardOfOutcome(scArgs.payload, scOut)

\* The assistant message handleSubmit appends for the call that has ended.
MessageOfCall == SettledMessage([Request(scArgs.payload, ViaForm) EXCEPT !.out = scOut])

\* C21: the interrupt id is not altered in transit: the body sendChat posts has
\* the message, the interrupt_id and the resume_value of its payload unchanged,
\* and the payload's user_tz when it has one (the server's time zone is put in
\* only when it has none); and the assistant message appended for a reply
\* stores the interrupt_id the backend returned in that reply.
C21_InterruptIdUnaltered ==
  scPc = "done"
    => /\ scOut.posted
            => /\ scOut.body.message = scArgs.payload.message
               /\ scOut.body.interrupt_id = scArgs.payload.interrupt_id
               /\ scOut.body.resume_value = scArgs.payload.resume_value
               /\ scOut.body.user_tz =
                    (IF Truthy(scArgs.payload.user_tz)
                       THEN scArgs.payload.user_tz ELSE ServerTz)
       /\ scOut.result.success
            => /\ MessageOfCall.role = "assistant"
               /\ MessageOfCall.interrupt_id = scArgs.backend.data.interrupt_id

\* A call with an interrupt id and a resume value of its own, and a time zone,
\* was posted with them, and the reply's interrupt id is on the message.
C21_Witness ==
  /\ scPc = "done"
  /\ scArgs.payload.interrupt_id = "i1"
  /\ scArgs.payload.resume_value = "yes"
  /\ scArgs.payload.user_tz = BrowserTz
  /\ scOut.posted
  /\ scOut.body.interrupt_id = "i1"
  /\ scOut.body.user_tz = BrowserTz
  /\ scOut.result.success
  /\ scArgs.backend.data.interrupt_id = "i2"
  /\ MessageOfCall.interrupt_id = "i2"

(***************************************************************************)
(* Properties of the chat page (Spec)                                      *)
(***************************************************************************)

\* The oldest awaited call has returned a failure of one of these types.
ReturnedFailure(types) ==
  /\ inflight # <<>>
  /\ inflight[1].stage = "returned"
  /\ ~inflight[1].out.result.threw
  /\ ~inflight[1].out.result.success
  /\ inflight[1].out.result.error.type \in types

\* This step is handleSubmit resuming after the oldest awaited call.
ResumeStep ==
  /\ inflight # <<>>
  /\ inflight[1].stage = "returned"
  /\ location' = PathC
  /\ inflight' = Tail(inflight)

\* This step is the server returning from sendChat for the oldest awaited call.
ReturnStep ==
  /\ inflight # <<>>
  /\ inflight[1].stage = "sent"
  /\ inflight' # <<>>
  /\ inflight'[1].stage = "returned"

\* C6: whenever a chat request ends with AUTHENTICATION_FAILED (also when
\* sendChat found no session cookie), the session and refresh_token cookies
\* are both absent once handleSubmit resumes, and the redirect to /login is
\* scheduled.
C6_AuthFailureClearsCookies ==
  [][(ReturnedFailure({"AUTHENTICATION_FAILED"}) /\ ResumeStep)
       => (cookies' \cap {"session", "refresh_token"} = {} /\ timers' > 0)]_vars

NonAuthTypes == (SpecErrorTypes \cup {"HTTP_ERROR"}) \ {"AUTHENTICATION_FAILED"}

ErrorCards == {"Server Error", "Forbidden", "Validation Error", "Error"}

\* C7: a chat request that ends with an error type other than
\* AUTHENTICATION_FAILED leaves the cookies as they were and schedules no
\* navigation; all it does is append one error card to the message list (and
\* stop the thinking indicator).
C7_OtherErrorsOnlyAppendCard ==
  [][/\ (ReturnStep /\ ReturnedFailure(NonAuthTypes)') => cookies' = cookies
     /\ (ReturnedFailure(NonAuthTypes) /\ ResumeStep)
          => /\ cookies' = cookies
             /\ timers' = timers
             /\ location' = location
             /\ input' = input
             /\ disabled' = disabled
             /\ rendered' = rendered
             /\ Len(messages') = Len(messages) + 1
             /\ SubSeq(messages', 1, Len(messages)) = messages
             /\ messages'[Len(messages')].role = "assistant"
             /\ SpecialBubble(messages'[Len(messages')], FALSE).card \in ErrorCards]_vars

C7_Witness ==
  /\ location = PathC
  /\ messages # <<>>
  /\ JSONparse(messages[Len(messages)].content).type = "error"
  /\ JSONparse(messages[Len(messages)].content).status = Num(403)
  /\ SpecialBubble(messages[Len(messages)], FALSE).card = "Forbidden"
  /\ cookies = CookieNames
  /\ timers = 0
  /\ inflight = <<>>

\* The cards whose action resumes a suspended booking flow.
InteractiveCards == {"booking_proposal", "slots", "doctors"}

\* C8: every chat request triggered by an action on an interactive card
\* carries the interrupt_id of the message the card was rendered from,
\* unchanged, and a resume_value.
C8_CardRequestsCarryInterruptId ==
  \A k \in 1..Len(inflight) :
    (inflight[k].via.kind = "card" /\ inflight[k].via.card \in InteractiveCards)
      => /\ inflight[k].payload.interrupt_id = messages[inflight[k].via.index].interrupt_id
         /\ Truthy(inflight[k].payload.resume_value)

\* C9: at most one chat request is in flight at any time.
C9_AtMostOneInFlight == Len(inflight) <= 1

\* The message at index i of the rendered list is an assistant message whose
\* content is JSON of type slots with an options list.
IsSlotsMessage(i) ==
  /\ rendered[i].role = "assistant"
  /\ rendered[i].content.json
  /\ rendered[i].content.doc.type = "slots"
  /\ rendered[i].content.doc.options.isArray

\* This step is a click on a button of the slot card at index i.
SlotClickStep(i) ==
  /\ i \in 1..Len(rendered)
  /\ IsSlotsMessage(i)
  /\ i \notin disabled
  /\ i \in disabled'

\* C10: every assistant message of type slots with an options list renders as
\* one slot card with one button per option, and a click on a button submits
\* a chat message whose text contains that button's option.
C10_SlotCardSubmitsOption ==
  [][/\ \A i \in 1..Len(rendered) :
          (IsSlotsMessage(i) /\ i \notin disabled)
            => /\ Bubble(i).card = "slots"
               /\ Len(Bubble(i).buttons) = Len(rendered[i].content.doc.options.items)
     /\ \A i \in 1..Len(rendered) :
          SlotClickStep(i)
            => /\ Len(inflight') = Len(inflight) + 1
               /\ LET r == inflight'[Len(inflight')]
                      opts == rendered[i].content.doc.options.items
                  IN  /\ r.via.index = i
                      /\ r.via.button \in 1..Len(opts)
                      /\ Includes(r.payload.message.chars, <<opts[r.via.button]>>)
                      /\ messages'[Len(messages')] = UserMsg(r.payload.message)]_vars

\* The card that the message handleSubmit appends in this step is rendered
\* as, by the bubble of its index.
AppendedCard == SpecialBubble(messages'[Len(messages')], Len(messages') \in disabled')

\* The oldest awaited call got this status from the backend.
Answered(status) ==
  /\ inflight # <<>>
  /\ inflight[1].stage = "returned"
  /\ inflight[1].res.fetch = "response"
  /\ inflight[1].res.status = status

\* C12: when the backend answers a chat request with 422 and a body whose
\* detail has a message, handleSubmit appends a message that is rendered as
\* the validation-error card showing that message (followed by the listed
\* errors when detail has them); when it answers with 500, the appended
\* message is rendered as the server-error card with a retry button.
C12_ErrorResponsesRenderTheirCards ==
  [][ResumeStep
       => /\ (/\ Answered(422)
              /\ inflight[1].res.errBody.kind = "object"
              /\ inflight[1].res.errBody.detailKind = "object"
              /\ Truthy(inflight[1].res.errBody.detailText))
               => /\ Len(messages') = Len(messages) + 1
                  /\ AppendedCard.card = "Validation Error"
                  /\ AppendedCard.shown =
                       (IF inflight[1].res.errBody.errors.isArray
                          THEN inflight[1].res.errBody.detailText \o " ("
                                 \o Join(inflight[1].res.errBody.errors.items) \o ")"
                          ELSE inflight[1].res.errBody.detailText)
          /\ Answered(500)
               => /\ Len(messages') = Len(messages) + 1
                  /\ AppendedCard.card = "Server Error"
                  /\ \E k \in 1..Len(AppendedCard.buttons) :
                       /\ AppendedCard.buttons[k].action = "retry"
                       /\ TruthyText(AppendedCard.buttons[k].text)]_vars

\* A 422 card showing the backend's message, and a 500 card with its retry
\* button, are on the screen.
C12_Witness ==
  /\ \E i \in 1..Len(rendered) :
       /\ Bubble(i).card = "Validation Error"
       /\ Bubble(i).shown = "Bad input"
  /\ \E i \in 1..Len(rendered) :
       /\ Bubble(i).card = "Server Error"
       /\ Bubble(i).buttons # <<>>

\* The cards with a Try Again button.
RetryCards == {"Server Error", "Validation Error", "Error"}

\* This step issues a chat request.
IssueStep == Len(inflight') = Len(inflight) + 1

\* This step is a click on Try Again that issues a chat request.
RetryStep ==
  /\ IssueStep
  /\ inflight'[Len(inflight')].via.kind = "card"
  /\ inflight'[Len(inflight')].via.card \in RetryCards

\* C14: no retry is automatic and a retry resubmits the original text: every
\* step that issues a chat request is the user submitting the form or
\* clicking a button of a card; the error message appended for a failed
\* request keeps, as retryMessage, the text that request sent; and a click on
\* Try Again submits exactly the retryMessage of its card, as a new user
\* message and as the message of the new request.
C14_RetryOnlyByUserWithOriginalText ==
  [][/\ IssueStep => (SubmitForm \/ ClickSet \/ ClickRetry)
     /\ (ResumeStep /\ (inflight[1].out.result.threw \/ ~inflight[1].out.result.success))
          => /\ Len(inflight') < Len(inflight)
             /\ JSONparse(messages'[Len(messages')].content).retryMessage
                  = inflight[1].payload.message
     /\ RetryStep
          => LET r == inflight'[Len(inflight')]
                 card == JSONparse(rendered[r.via.index].content)
             IN  /\ card.type = "error"
                 /\ r.payload.message = card.retryMessage
                 /\ messages'[Len(messages')] = UserMsg(card.retryMessage)]_vars

\* A request that Try Again issued, with the text "hi" of the failed one, is
\* awaited.
C14_Witness ==
  /\ inflight # <<>>
  /\ inflight[Len(inflight)].via.kind = "card"
  /\ inflight[Len(inflight)].via.card \in RetryCards
  /\ inflight[Len(inflight)].payload.message = Text(<<"hi">>)
  /\ \E i \in 1..Len(rendered) :
       /\ i = inflight[Len(inflight)].via.index
       /\ JSONparse(rendered[i].content).retryMessage = Text(<<"hi">>)

\* What ConversationArea shows for a message list: one bubble per message.
\* FreshOutput is what a first render of the list on a new page shows.
ShownOutput == [i \in 1..Len(rendered) |-> Bubble(i)]
FreshOutput == [i \in 1..Len(rendered) |-> SpecialBubble(rendered[i], FALSE)]

\* C19: rendering is a function of the message list alone: whatever the user
\* did before, the list on the screen is rendered as a first render of the
\* same list would render it; no state of a card changes what its message is
\* rendered as.
C19_RenderDependsOnMessagesOnly == ShownOutput = FreshOutput

\* The placeholder a clicked card is rendered as.
SentCard == Card("sent", Undefined, <<>>)

\* C23: a booking-proposal, slot or doctor card acts at most once: a click on
\* one of its buttons disables it; a disabled card is rendered as the
\* processing placeholder, without buttons, and stays so, for the same
\* message, for as long as the page is open, whatever becomes of the request
\* the click triggered (also when the click sent none); and no request is
\* ever issued from a disabled card.
C23_CardActsAtMostOnce ==
  [][/\ \A i \in disabled :
          /\ i \in 1..Len(rendered)
          /\ Bubble(i) = SentCard
          /\ location' = PathC
               => /\ i \in disabled'
                  /\ i \in 1..Len(rendered')
                  /\ rendered'[i] = rendered[i]
                  /\ SpecialBubble(rendered'[i], i \in disabled') = SentCard
     /\ (IssueStep /\ inflight'[Len(inflight')].via.kind = "card")
          => /\ inflight'[Len(inflight')].via.index \notin disabled
             /\ inflight'[Len(inflight')].via.card \in InteractiveCards
                  => inflight'[Len(inflight')].via.index \in disabled']_vars

\* A slot card was clicked, the request of the click has failed, and the
\* card is still the placeholder.
C23_Witness ==
  /\ inflight = <<>>
  /\ rendered = messages
  /\ \E i \in disabled :
       /\ JSONparse(rendered[i].content).type = "slots"
       /\ Bubble(i) = SentCard
       /\ Len(rendered) = i + 2
       /\ rendered[i + 1].role = "user"
       /\ JSONparse(rendered[i + 2].content).type = "error"

\* The number of messages of this role in a list.
CountOf(role, list) == Len(SelectSeq(list, LAMBDA msg : msg.role = role))

UnexpectedErrorText == "An unexpected error occurred. Please try again."

C25_ThinkingWhileOutstanding ==
  location = PathC => (isThinking <=> inflight # <<>>)

\* C26: the message list is append-only: while the page is open every step
\* leaves the messages of the list in place, in their order, and at most adds
\* messages at its end; also a submit made from a render that does not yet
\* show a reply already appended.
C26_MessageListAppendOnly ==
  [][location' = PathC
       => /\ Len(messages') >= Len(messages)
          /\ SubSeq(messages', 1, Len(messages)) = messages]_vars

(***************************************************************************)
(* Properties of the card dispatcher (SpecCard)                            *)
(***************************************************************************)

\* The cards that are specialised for a type tag; the plain bubble is
\* "ChatBubble" and the placeholder of a clicked card is "sent".
SpecialisedCards(type) ==
  IF type = "error" THEN {"Server Error", "Unauthorized", "Forbidden", "Validation Error", "Error"}
  ELSE IF type \in {"confirm_booking", "booking_proposal"} THEN {"booking_proposal"}
  ELSE {type}

\* C11: every message whose content parses as JSON with a type among
\* confirm_booking, booking_proposal, slots, doctors, booking_conflict,
\* booking_error, appointment_confirmed, no_doctors and error is rendered, by
\* an instance nobody has clicked yet, as the card of that type and not as the
\* plain markdown bubble.
C11_TypedPayloadRendersItsCard ==
  (/\ cdPc = "rendered"
   /\ ~cdDisabled
   /\ cdMsg.content.json
   /\ cdMsg.content.doc.type \in PayloadTypes)
    => cdOut.card \in SpecialisedCards(cdMsg.content.doc.type)

\* C28: only assistant messages are rendered as cards: a user message, also
\* one whose text is JSON of a known type, is rendered as the plain bubble
\* and has no button.
C28_UserMessagesArePlainBubbles ==
  (cdPc = "rendered" /\ cdMsg.role = "user")
    => (cdOut.card = "ChatBubble" /\ cdOut.buttons = <<>>)

(***************************************************************************)
(* Properties of the login and registration forms (SpecAuth)               *)
(***************************************************************************)

\* The form's handler has finished for a submit of this form.
Settled(form) == auPc = "settled" /\ auForm = form

\* The backend answered the action's request with a status of this set.
AuthAnswered(statuses) ==
  /\ auOutcome.posted
  /\ auBackend.fetch = "response"
  /\ auBackend.status \in statuses

\* C15: a login the backend accepts (2xx) ends with the browser at /c; a
\* login the backend answers with 401 makes the action return an error result
\* which the form shows as a toast; and in neither case does an exception
\* leave the form's handler.
C15_LoginNavigatesOrShowsError ==
  Settled("login")
    => /\ AuthAnswered({200, 201})
            => (auShown.location = PathC /\ ~auShown.threw)
       /\ AuthAnswered({401})
            => /\ auOutcome.kind = "return"
               /\ auOutcome.errors.kind # "none"
               /\ Truthy(auShown.toast)
               /\ ~auShown.threw

\* C16: a registration the backend accepts ends with a redirect to /login;
\* when the action's own validation fails or the backend answers with a
\* status that is not 2xx, the form shows an error and no exception leaves its
\* handler.
C16_RegisterRedirectsOrShowsError ==
  Settled("register")
    => /\ AuthAnswered({200, 201}) => auShown.location = PathLogin
       /\ ((auOutcome.kind = "return" /\ auOutcome.errors.kind = "fields")
             \/ AuthAnswered({400, 401, 409, 422, 500}))
            => (Truthy(auShown.toast) /\ ~auShown.threw)

(***************************************************************************)
(* Properties of the sidebar and of cancelAppointment (SpecSide)           *)
(***************************************************************************)

\* The call being run has an appointment id and a session token.
CancelCanSend == Truthy(sdCall.appointmentId) /\ sdToken

\* The backend accepted its DELETE.
DeleteAccepted ==
  /\ CancelCanSend
  /\ sdCall.answer.fetch = "response"
  /\ ResOk(sdCall.answer.status)

\* C17: cancelAppointment sends one DELETE, for the appointment id of the
\* form, when it has an id and a token, and none otherwise; it revalidates the
\* path exactly when the backend accepted that DELETE (not when the id or the
\* token is missing, the DELETE is refused, or the request fails), and after
\* the DELETE; it never throws.
C17_CancelDeletesThenRevalidates ==
  sdPc = "cancelled"
    => /\ sdOut.deletes = IF CancelCanSend THEN <<sdCall.appointmentId>> ELSE <<>>
       /\ sdOut.revalidated <=> DeleteAccepted
       /\ sdOut.revalidated => sdOut.deletesBefore = 1
       /\ ~sdOut.threw

\* A cancel the backend accepted has been revalidated.
C17_Witness ==
  /\ sdPc = "cancelled"
  /\ sdCall.appointmentId = "12"
  /\ sdCall.answer = DeleteResponse(204, TRUE)
  /\ sdOut.deletes = <<"12">>
  /\ sdOut.revalidated

\* C18: on the chat page a doctor's sidebar has no cancel action on any card,
\* and a patient's sidebar has one on every card.
C18_SidebarFollowsRole ==
  sdPc = "shown"
    => /\ sdUser = User("doctor")
            => \A k \in 1..Len(sdPage.items) : ~sdPage.items[k].cancel
       /\ sdUser = User("patient")
            => \A k \in 1..Len(sdPage.items) : sdPage.items[k].cancel

(***************************************************************************)
(* Properties of the two actions (SpecAct)                                 *)
(***************************************************************************)

\* What the schema of the called action makes of the data handed to it.
Validation ==
  IF acCall.action = "login" THEN loginSchema(acCall.data) ELSE registerSchema(acCall.data)

\* C22: server-side validation gates the backend call: when the data handed
\* to login or to register fails the action's schema, the action returns the
\* schema's field errors and sends no request to the backend.
C22_ValidationGatesBackendCall ==
  (acPc = "done" /\ ~Validation.success)
    => /\ acOut.kind = "return"
       /\ acOut.errors = FieldErrors(Validation.fieldErrors)
       /\ ~acOut.posted

\* login was called with a password that is too short, and register with
\* passwords that differ: each returned its field errors without a request.
C22_Witness ==
  /\ acPc = "done"
  /\ ~acOut.posted
  /\ \/ /\ acCall.action = "login"
        /\ acCall.data.password = <<"short">>
        /\ acOut.errors = FieldErrors({"password"})
     \/ /\ acCall.action = "register"
        /\ acCall.data.email = <<"a@b.c">>
        /\ acCall.data.repeat_password = <<"other789">>
        /\ acOut.errors = FieldErrors({"repeat_password"})

(***************************************************************************)
(* Properties of navigation (SpecNav)                                      *)
(***************************************************************************)

\* C29: navigation always settles: whatever path is asked for, whatever the
\* session cookie is and whatever /auth/me answers, following the redirects
\* of next.config, of the middleware, of the chat page and of the login
\* action ends, after finitely many redirects, at a rendered page.
C29_NavigationSettles ==
  (nvPc \in {"config", "middleware", "page"}) ~> (nvPc \in {"rendered", "failed"})

\* This step is the logout action of the user menu.
LogoutStep == nvPc = "rendered" /\ nvPc' = "config" /\ nvVia' = "logout"

\* C30: when logout has run, the session and refresh_token cookies are both
\* gone and the browser is sent to /login; and for as long as the browser has
\* no session cookie, which only a login the backend accepts gives it again,
\* every request for the chat path /c is answered by the middleware with a
\* redirect to /login.
C30_LogoutEndsTheSession ==
  [][/\ LogoutStep
          => /\ nvCookie' = NoCookie
             /\ ~nvRefresh'
             /\ nvPath' = PathLogin
     /\ (nvPc = "middleware" /\ nvPath = PathC /\ nvCookie = NoCookie)
          => (nvPc' = "config" /\ nvPath' = PathLogin /\ nvVia' = "middleware")
     /\ (nvCookie = NoCookie /\ nvCookie' # NoCookie)
          => (nvPc = "idle" \/ nvVia' = "login")]_vars

\* A user who was logged in has logged out: no cookie is left and the
\* browser is asking for /login.
C30_Witness ==
  /\ nvVia = "logout"
  /\ nvPc = "config"
  /\ nvPath = PathLogin
  /\ nvCookie = NoCookie
  /\ ~nvRefresh
  /\ nvMe # NullUser
====
